---- MODULE Spec2Model ----
(***************************************************************************)
(* Credential resolution of the bird CLI (src/src/lib/cookies.ts):         *)
(* resolveCredentials and the three browser readers it drives.             *)
(*                                                                         *)
(* Strings are sequences of one-character strings, so that trimming,       *)
(* joining and comparing are computed as the code computes them.  A        *)
(* nullable value is a sequence of length at most one: Null is <<>> and    *)
(* Some(x) is <<x>>.                                                       *)
(***************************************************************************)
EXTENDS Integers, Sequences, FiniteSets, TLC

VARIABLES
  options,     \* the argument of resolveCredentials
  env,         \* process.env, the four variables the resolver reads
  pc,          \* position inside resolveCredentials
  cookies,     \* the local `cookies` object of resolveCredentials
  warnings,    \* the local `warnings` array of resolveCredentials
  idx,         \* position of the for-loop over sourcesToTry (1-based)
  returned,    \* the value the promise resolved with (Null while running)
  attempts,    \* history: one entry per browser reader invoked, in order
  call,        \* a direct call of one browser reader: its arguments
  result,      \* what that call returned (Null before it returns)
  input,       \* a direct call of the Safari parser or of decryptCookieValue
  output,      \* what that call gave (Null before it returns)
  run,         \* a browser reader followed statement by statement
  disk,        \* the files that reader sees and the temp directories it makes
  fsLog,       \* the filesystem and subprocess calls of the reader, in order
  cmd,         \* a CLI command being run: its options, position and what it did
  paging,      \* a call of getRepliesPaged / getThreadPaged: its loop state
  req          \* a call of fetchTweetDetail / getFollowing / getFollowers

vars == <<options, env, pc, cookies, warnings, idx, returned, attempts, call, result,
          input, output, run, disk, fsLog, cmd, paging, req>>

(***************************************************************************)
(* Bounds of the model.                                                    *)
(***************************************************************************)
MaxRows == 2      \* rows/records a browser store holds
MaxSources == 2   \* length of an explicit cookieSource array
MaxFetches == 3   \* fetchTweetDetail calls one paged call may make

----------------------------------------------------------------------------
(* Nullable values and strings                                             *)

Null == <<>>
Some(x) == <<x>>

\* JavaScript truthiness of a `string | null | undefined` value.
Truthy(o) == o # Null /\ Len(o[1]) > 0

IsSpace(c) == c \in {" ", "\t", "\n"}

RECURSIVE TrimStart(_)
TrimStart(s) ==
  IF s # <<>> /\ IsSpace(Head(s)) THEN TrimStart(Tail(s)) ELSE s

RECURSIVE TrimEnd(_)
TrimEnd(s) ==
  IF s # <<>> /\ IsSpace(s[Len(s)]) THEN TrimEnd(SubSeq(s, 1, Len(s) - 1)) ELSE s

\* String.prototype.trim
Trim(s) == TrimEnd(TrimStart(s))

\* a faulty variant of normalizeValue: the value is kept as it is, blanks included
normalizeValueNoTrim(value) ==
  IF value = Null \/ Len(value[1]) = 0 THEN Null ELSE value

normalizeValue(value) ==
  IF value = Null THEN Null
  ELSE LET trimmed == Trim(value[1])
       IN  IF Len(trimmed) > 0 THEN Some(trimmed) ELSE Null

\* Array.prototype.join
RECURSIVE Join(_, _)
Join(ss, sep) ==
  IF ss = <<>> THEN <<>>
  ELSE IF Len(ss) = 1 THEN ss[1]
  ELSE ss[1] \o sep \o Join(Tail(ss), sep)

SeqsUpTo(S, n) == UNION { [1..k -> S] : k \in 0..n }

----------------------------------------------------------------------------
(* Cookie jars and the cookie header                                       *)

AUTH_TOKEN_NAME == <<"a","u","t","h","_","t","o","k","e","n">>
CT0_NAME == <<"c","t","0">>
KDT_NAME == <<"k","d","t">>

EmptyCookies ==
  [authToken |-> Null, ct0 |-> Null, cookieHeader |-> Null, source |-> Null]

\* jar[name] = value on a JavaScript object: a jar is the sequence of its
\* entries in insertion order; assigning an existing key keeps its place.
JarSet(jar, name, value) ==
  IF \E i \in 1..Len(jar) : jar[i].name = name
  THEN [i \in 1..Len(jar) |->
          IF jar[i].name = name THEN [name |-> name, value |-> value] ELSE jar[i]]
  ELSE Append(jar, [name |-> name, value |-> value])

\* Collation order of the characters cookie names are made of.
Collation ==
  <<"_", "0", "1", "2", "3", "4", "5", "6", "7", "8", "9",
    "a", "b", "c", "d", "e", "f", "g", "h", "i", "j", "k", "l", "m",
    "n", "o", "p", "q", "r", "s", "t", "u", "v", "w", "x", "y", "z">>

CharRank(c) ==
  IF \E i \in 1..Len(Collation) : Collation[i] = c
  THEN CHOOSE i \in 1..Len(Collation) : Collation[i] = c
  ELSE 0

\* a.localeCompare(b) < 0
RECURSIVE LocaleLess(_, _)
LocaleLess(a, b) ==
  IF b = <<>> THEN FALSE
  ELSE IF a = <<>> THEN TRUE
  ELSE IF CharRank(Head(a)) # CharRank(Head(b))
       THEN CharRank(Head(a)) < CharRank(Head(b))
       ELSE LocaleLess(Tail(a), Tail(b))

\* Array.prototype.sort with the comparator of serializeCookieJar (stable).
RECURSIVE InsertByName(_, _)
InsertByName(e, sorted) ==
  IF sorted = <<>> THEN <<e>>
  ELSE IF LocaleLess(e.name, Head(sorted).name) THEN <<e>> \o sorted
  ELSE <<Head(sorted)>> \o InsertByName(e, Tail(sorted))

RECURSIVE SortByName(_)
SortByName(entries) ==
  IF entries = <<>> THEN <<>>
  ELSE InsertByName(entries[Len(entries)],
                    SortByName(SubSeq(entries, 1, Len(entries) - 1)))

\* a faulty variant of serializeCookieJar: the entries stay in insertion order
serializeCookieJarUnsorted(jar) ==
  LET entries == SelectSeq(jar, LAMBDA e : Len(e.value) > 0)
  IN  Join([i \in 1..Len(entries) |-> entries[i].name \o <<"=">> \o entries[i].value],
           <<";", " ">>)

serializeCookieJar(jar) ==
  LET entries == SortByName(SelectSeq(jar, LAMBDA e : Len(e.value) > 0))
  IN  Join([i \in 1..Len(entries) |-> entries[i].name \o <<"=">> \o entries[i].value],
           <<";", " ">>)

\* The template literal `auth_token=${authToken}; ct0=${ct0}`.
ComposeHeader(authToken, ct0) ==
  AUTH_TOKEN_NAME \o <<"=">> \o authToken \o <<";", " ">> \o CT0_NAME \o <<"=">> \o ct0

\* a faulty variant of FillTokenSlots: a later row replaces the token
FillTokenSlotsLast(name, value, c) ==
  IF name = AUTH_TOKEN_NAME THEN [c EXCEPT !.authToken = Some(value)]
  ELSE IF name = CT0_NAME THEN [c EXCEPT !.ct0 = Some(value)]
  ELSE c

\* The first-match-wins slots of a reader's `cookies` object.
FillTokenSlots(name, value, c) ==
  IF name = AUTH_TOKEN_NAME /\ ~Truthy(c.authToken)
  THEN [c EXCEPT !.authToken = Some(value)]
  ELSE IF name = CT0_NAME /\ ~Truthy(c.ct0)
  THEN [c EXCEPT !.ct0 = Some(value)]
  ELSE c

\* The tail of each reader's try block: header when the jar has a key, source
\* label when either token was found.
SetHeaderAndSource(jar, c, label) ==
  [c EXCEPT
     !.cookieHeader = IF Len(jar) > 0 THEN Some(serializeCookieJar(jar)) ELSE Null,
     !.source = IF Truthy(c.authToken) \/ Truthy(c.ct0) THEN Some(label) ELSE Null]

\* `if (!cookies.authToken && !cookies.ct0) warnings.push(...)`, then return.
\* a faulty variant of ReaderReturn: the "no cookies" warning is left out
ReaderReturnSilent(c, ws, none) == [threw |-> FALSE, cookies |-> c, warnings |-> ws]

ReaderReturn(c, ws, none) ==
  [threw |-> FALSE,
   cookies |-> c,
   warnings |-> IF ~Truthy(c.authToken) /\ ~Truthy(c.ct0) THEN Append(ws, none) ELSE ws]

\* error.message of the filesystem or subprocess call that threw
ErrMessage(status) ==
  CASE status = "mkdtempFails" -> "EACCES: permission denied, mkdtemp"
    [] status = "copyFails" -> "EACCES: permission denied, copyfile"
    [] status = "readFails" -> "EIO: i/o error, read"
    [] status = "execFails" -> "Command failed: sqlite3"
    [] OTHER -> "Error"

----------------------------------------------------------------------------
(* Safari reader                                                           *)

SAFARI_COOKIE_DOMAINS == { <<"x",".","c","o","m">>,
                           <<"t","w","i","t","t","e","r",".","c","o","m">> }

ToLowerChar(c) ==
  CASE c = "X" -> "x" [] c = "C" -> "c" [] c = "O" -> "o" [] c = "M" -> "m"
    [] c = "T" -> "t" [] c = "W" -> "w" [] c = "I" -> "i" [] c = "E" -> "e"
    [] c = "R" -> "r" [] OTHER -> c

ToLowerCase(s) == [i \in 1..Len(s) |-> ToLowerChar(s[i])]

EndsWith(s, suffix) ==
  Len(s) >= Len(suffix) /\ SubSeq(s, Len(s) - Len(suffix) + 1, Len(s)) = suffix

matchesSafariDomain(domain) ==
  IF ~Truthy(domain) THEN FALSE
  ELSE LET d == domain[1]
           normalized == ToLowerCase(IF Head(d) = "." THEN Tail(d) ELSE d)
       IN  \E target \in SAFARI_COOKIE_DOMAINS :
             normalized = target \/ EndsWith(normalized, <<".">> \o target)

\* The part of parseSafariCookieRecord after the three strings were read:
\* rec holds what readSafariCString returned for domain, name and value.
parseSafariCookieRecord(rec, acc) ==
  IF ~Truthy(rec.name) \/ ~Truthy(rec.value) \/ ~matchesSafariDomain(rec.domain)
  THEN acc
  ELSE LET normalizedValue == normalizeValue(rec.value)
       IN  IF ~Truthy(normalizedValue) THEN acc
           ELSE [jar |-> JarSet(acc.jar, rec.name[1], normalizedValue[1]),
                 cookies |-> FillTokenSlots(rec.name[1], normalizedValue[1], acc.cookies)]

\* The records of a container, page after page, in file order.
RECURSIVE parseSafariCookies(_, _)
parseSafariCookies(records, acc) ==
  IF records = <<>> THEN acc
  ELSE parseSafariCookies(Tail(records), parseSafariCookieRecord(Head(records), acc))

SAFARI_NOT_FOUND == "Safari cookies database not found."
SAFARI_NO_COOKIES ==
  "No Twitter cookies found in Safari. Make sure you are logged into x.com in Safari."

\* st.status: "notFound" (getSafariCookiesPath returned null), the call of the
\* try block that threw ("mkdtempFails", "copyFails", "readFails"), "badMagic"
\* (the file does not start with "cook": the parser returns before it reads a
\* record, st.rows is empty), or "ok".
extractCookiesFromSafari(st) ==
  IF st.status = "notFound"
  THEN [threw |-> FALSE, cookies |-> EmptyCookies, warnings |-> <<SAFARI_NOT_FOUND>>]
  ELSE IF st.status \in {"ok", "badMagic"}
  THEN LET parsed == parseSafariCookies(st.rows, [jar |-> <<>>, cookies |-> EmptyCookies])
       IN  ReaderReturn(SetHeaderAndSource(parsed.jar, parsed.cookies, "Safari"),
                        <<>>, SAFARI_NO_COOKIES)
  ELSE ReaderReturn(EmptyCookies,
                    <<"Failed to read Safari cookies: " \o ErrMessage(st.status)>>,
                    SAFARI_NO_COOKIES)

----------------------------------------------------------------------------
(* Chrome reader                                                           *)

HEX_RUN_MIN == 32

IsHexChar(c) ==
  c \in {"0","1","2","3","4","5","6","7","8","9","a","b","c","d","e","f",
         "A","B","C","D","E","F"}

IsPrintable(c) == c \notin {"\t", "\n", "\r", "\f"}

\* length of the run of hex characters s starts with
RECURSIVE HexRunLen(_)
HexRunLen(s) ==
  IF s # <<>> /\ IsHexChar(Head(s)) THEN 1 + HexRunLen(Tail(s)) ELSE 0

\* decryptedStr.match(/[a-f0-9]{32,}/i): the leftmost run, taken greedily
RECURSIVE HexMatch(_)
HexMatch(s) ==
  IF s = <<>> THEN Null
  ELSE LET n == HexRunLen(s)
       IN  IF n >= HEX_RUN_MIN THEN Some(SubSeq(s, 1, n))
           ELSE IF n = 0 THEN HexMatch(Tail(s))
           ELSE HexMatch(SubSeq(s, n + 1, Len(s)))

\* what decrypting under another key leaves when the last block happens to
\* end in valid PKCS#7 padding (AES-CBC is not authenticated): arbitrary
\* bytes, of which the fallback keeps the printable ones
WRONG_KEY_TEXT == <<"g", "\n", "#">>

IsEncrypted(enc) == enc.kind \in {"v10", "v11", "v10cut"}

\* enc describes the hex column of one row: kind "legacy" (the bytes are the
\* value itself), "v10"/"v11" (the bytes are the version tag and the AES-CBC
\* encryption of plain under the Chrome Safe Storage key) or "v10cut" (the
\* tag and a ciphertext that is not a whole number of blocks).  keychain is
\* what the `security` subprocess gives: "ok", "missing" (empty output),
\* "throws" (execSync throws), "wrong" (another key, decipher.final() throws)
\* or "wrongPads" (another key, under which the padding check passes).
\* The body of the try block: the value returned or the fact that a call
\* threw, and whether the keychain was queried.
decryptTry(enc, keychain) ==
  IF ~IsEncrypted(enc)
  THEN [thrown |-> FALSE, queried |-> FALSE,
        value |-> IF Len(enc.plain) < 4 THEN Null ELSE Some(enc.plain)]
  ELSE IF keychain = "throws" THEN [thrown |-> TRUE, queried |-> TRUE, value |-> Null]
  ELSE IF keychain = "missing" THEN [thrown |-> FALSE, queried |-> TRUE, value |-> Null]
  ELSE IF enc.kind = "v10cut" \/ keychain = "wrong"
  THEN [thrown |-> TRUE, queried |-> TRUE, value |-> Null]
  ELSE LET decryptedStr == IF keychain = "ok" THEN enc.plain ELSE WRONG_KEY_TEXT
           hexMatch == HexMatch(decryptedStr)
       IN  [thrown |-> FALSE, queried |-> TRUE,
            value |-> IF hexMatch # Null THEN hexMatch
                      ELSE Some(SelectSeq(decryptedStr, IsPrintable))]

\* a faulty variant of decryptCookieValue: a short legacy value is decoded too
decryptCookieValueAnyLength(enc, keychain) ==
  IF ~IsEncrypted(enc) THEN Some(enc.plain) ELSE decryptTry(enc, keychain).value

\* try { ... } catch { return null; }
decryptCookieValue(enc, keychain) ==
  LET r == decryptTry(enc, keychain)
  IN  IF r.thrown THEN Null ELSE r.value

RECURSIVE ChromeRows(_, _, _)
ChromeRows(rows, keychain, acc) ==
  IF rows = <<>> THEN acc
  ELSE LET row == Head(rows)
           decryptedValue == decryptCookieValue(row.enc, keychain)
       IN  ChromeRows(Tail(rows), keychain,
             IF Len(row.name) = 0 \/ ~Truthy(decryptedValue) THEN acc
             ELSE [jar |-> JarSet(acc.jar, row.name, decryptedValue[1]),
                   cookies |-> FillTokenSlots(row.name, decryptedValue[1], acc.cookies)])

getChromeCookiesPath(profile) ==
  "~/Library/Application Support/Google/Chrome/"
    \o (IF profile # Null THEN profile[1] ELSE "Default") \o "/Cookies"

CHROME_NO_COOKIES ==
  "No Twitter cookies found in Chrome. Make sure you are logged into x.com in Chrome."

ChromeLabel(profile) ==
  IF profile # Null THEN "Chrome profile \"" \o profile[1] \o "\""
  ELSE "Chrome default profile"

\* st.status: "notFound" (existsSync false), the call of the try block that
\* threw ("mkdtempFails", "copyFails", "execFails"), or "ok".
extractCookiesFromChrome(st, profile) ==
  IF st.status = "notFound"
  THEN [threw |-> FALSE, cookies |-> EmptyCookies,
        warnings |-> <<"Chrome cookies database not found at: "
                         \o getChromeCookiesPath(profile)>>]
  ELSE IF st.status = "ok"
  THEN LET read == ChromeRows(st.rows, st.keychain, [jar |-> <<>>, cookies |-> EmptyCookies])
       IN  ReaderReturn(SetHeaderAndSource(read.jar, read.cookies, ChromeLabel(profile)),
                        <<>>, CHROME_NO_COOKIES)
  ELSE ReaderReturn(EmptyCookies,
                    <<"Failed to read Chrome cookies: " \o ErrMessage(st.status)>>,
                    CHROME_NO_COOKIES)

----------------------------------------------------------------------------
(* Firefox reader                                                          *)

RECURSIVE FirefoxRows(_, _)
FirefoxRows(rows, acc) ==
  IF rows = <<>> THEN acc
  ELSE LET row == Head(rows)
       IN  FirefoxRows(Tail(rows),
             IF Len(row.name) = 0 \/ Len(row.value) = 0 THEN acc
             ELSE [jar |-> JarSet(acc.jar, row.name, row.value),
                   cookies |-> FillTokenSlots(row.name, row.value, acc.cookies)])

FIREFOX_NOT_FOUND == "Firefox cookies database not found."
FIREFOX_NO_COOKIES ==
  "No Twitter cookies found in Firefox. Make sure you are logged into x.com in Firefox and the profile exists."

FirefoxLabel(profile) ==
  IF profile # Null THEN "Firefox profile \"" \o profile[1] \o "\""
  ELSE "Firefox default profile"

\* "throws" when readdirSync throws, "null" when no cookies.sqlite is found,
\* "path" otherwise.  The listing is read only when no profile is given.
pickFirefoxProfile(st, profile) ==
  IF profile = Null /\ st.listing = "throws" THEN "throws"
  ELSE IF st.status = "noDb" THEN "null" ELSE "path"

getFirefoxCookiesPath(st, profile) ==
  IF st.status = "noRoot" THEN "null" ELSE pickFirefoxProfile(st, profile)

\* st.status: "noRoot" (no profiles root), "noDb" (no cookies.sqlite in the
\* profile), the call of the try block that threw, or "ok"; st.listing: what
\* readdirSync of the profiles root does.
extractCookiesFromFirefox(st, profile) ==
  LET cookiesPath == getFirefoxCookiesPath(st, profile)
  IN  IF cookiesPath = "throws"
      THEN [threw |-> TRUE, cookies |-> EmptyCookies, warnings |-> <<>>]
      ELSE IF cookiesPath = "null"
      THEN [threw |-> FALSE, cookies |-> EmptyCookies, warnings |-> <<FIREFOX_NOT_FOUND>>]
      ELSE IF st.status = "ok"
      THEN LET read == FirefoxRows(st.rows, [jar |-> <<>>, cookies |-> EmptyCookies])
           IN  ReaderReturn(SetHeaderAndSource(read.jar, read.cookies, FirefoxLabel(profile)),
                            <<>>, FIREFOX_NO_COOKIES)
      ELSE ReaderReturn(EmptyCookies,
                        <<"Failed to read Firefox cookies: " \o ErrMessage(st.status)>>,
                        FIREFOX_NO_COOKIES)

----------------------------------------------------------------------------
(* resolveCredentials                                                      *)

CLI_ARGUMENT == "CLI argument"

\* 1. CLI arguments
CliArguments(c, opts) ==
  LET c1 == IF Truthy(opts.authToken)
            THEN [c EXCEPT !.authToken = opts.authToken, !.source = Some(CLI_ARGUMENT)]
            ELSE c
  IN  IF Truthy(opts.ct0)
      THEN [c1 EXCEPT !.ct0 = opts.ct0,
                      !.source = IF c1.source = Null THEN Some(CLI_ARGUMENT) ELSE @]
      ELSE c1

envAuthKeys == <<"AUTH_TOKEN", "TWITTER_AUTH_TOKEN">>
envCt0Keys == <<"CT0", "TWITTER_CT0">>

\* a faulty variant of ScanEnv: the loop has no break, the last non-blank key wins
RECURSIVE ScanEnvLast(_, _)
ScanEnvLast(keys, e) ==
  IF keys = <<>> THEN Null
  ELSE LET value == normalizeValue(e[Head(keys)])
           rest == ScanEnvLast(Tail(keys), e)
       IN  IF rest # Null THEN rest
           ELSE IF Truthy(value) THEN Some([key |-> Head(keys), value |-> value[1]])
           ELSE Null

\* The for-loop over candidate keys: the first key whose normalized value is
\* non-null, with that value; Null when the loop ends without a break.
RECURSIVE ScanEnv(_, _)
ScanEnv(keys, e) ==
  IF keys = <<>> THEN Null
  ELSE LET value == normalizeValue(e[Head(keys)])
       IN  IF Truthy(value) THEN Some([key |-> Head(keys), value |-> value[1]])
           ELSE ScanEnv(Tail(keys), e)

\* a faulty variant of EnvironmentVariables: a variable that is set overrides the slot
EnvironmentVariablesOverride(c, e) ==
  LET a  == ScanEnv(envAuthKeys, e)
      c1 == IF a # Null
            THEN [c EXCEPT !.authToken = Some(a[1].value),
                           !.source = Some("env " \o a[1].key)]
            ELSE c
      t  == ScanEnv(envCt0Keys, e)
  IN  IF t # Null
      THEN [c1 EXCEPT !.ct0 = Some(t[1].value),
                      !.source = IF c1.source = Null THEN Some("env " \o t[1].key) ELSE @]
      ELSE c1

\* 2. Environment variables
EnvironmentVariables(c, e) ==
  LET a  == ScanEnv(envAuthKeys, e)
      c1 == IF ~Truthy(c.authToken) /\ a # Null
            THEN [c EXCEPT !.authToken = Some(a[1].value),
                           !.source = Some("env " \o a[1].key)]
            ELSE c
      t  == ScanEnv(envCt0Keys, e)
  IN  IF ~Truthy(c1.ct0) /\ t # Null
      THEN [c1 EXCEPT !.ct0 = Some(t[1].value),
                      !.source = IF c1.source = Null THEN Some("env " \o t[1].key) ELSE @]
      ELSE c1

Complete(c) == Truthy(c.authToken) /\ Truthy(c.ct0)

\* a faulty variant of WithHeader: the header is never composed
WithHeaderNever(c) == c

\* `if (cookies.authToken && cookies.ct0) cookies.cookieHeader = ...`
WithHeader(c) ==
  IF Complete(c)
  THEN [c EXCEPT !.cookieHeader = Some(ComposeHeader(c.authToken[1], c.ct0[1]))]
  ELSE c

DEFAULT_SOURCES == <<"safari", "chrome", "firefox">>

\* a faulty variant of sourcesToTry: the fixed order, restricted to the sources named
sourcesToTryFixedOrder(cs) ==
  IF cs.kind = "undefined" THEN DEFAULT_SOURCES
  ELSE SelectSeq(DEFAULT_SOURCES, LAMBDA x : \E i \in 1..Len(cs.list) : cs.list[i] = x)

\* cs.kind: "undefined", "single" (one CookieSource, in cs.list[1]) or "array".
sourcesToTry(cs) ==
  IF cs.kind = "array" THEN cs.list
  ELSE IF cs.kind = "single" THEN <<cs.list[1]>>
  ELSE DEFAULT_SOURCES

MISSING_AUTH_TOKEN ==
  "Missing auth_token - provide via --auth-token, AUTH_TOKEN env var, or login to x.com in Safari/Chrome/Firefox"
MISSING_CT0 ==
  "Missing ct0 - provide via --ct0, CT0 env var, or login to x.com in Safari/Chrome/Firefox"

\* a faulty variant of MissingWarnings: one warning, whatever is missing
MissingWarningsOnce(c) ==
  IF ~Truthy(c.authToken) THEN <<MISSING_AUTH_TOKEN>>
  ELSE IF ~Truthy(c.ct0) THEN <<MISSING_CT0>> ELSE <<>>

\* Validation: the warnings of the still-missing tokens
MissingWarnings(c) ==
  (IF ~Truthy(c.authToken) THEN <<MISSING_AUTH_TOKEN>> ELSE <<>>)
    \o (IF ~Truthy(c.ct0) THEN <<MISSING_CT0>> ELSE <<>>)

----------------------------------------------------------------------------
(* Inputs of the model: options, environment and browser stores            *)

\* A primary variable is unset, blank, or holds v padded with spaces; an alias
\* is unset or holds v.
EnvSet ==
  LET EnvValues(v) == { Null, Some(<<" ">>), Some(<<" ">> \o v \o <<" ">>) }
      AliasValues(v) == { Null, Some(v) }
  IN { [k \in {"AUTH_TOKEN", "TWITTER_AUTH_TOKEN", "CT0", "TWITTER_CT0"} |->
          CASE k = "AUTH_TOKEN" -> a1 [] k = "TWITTER_AUTH_TOKEN" -> a2
            [] k = "CT0" -> t1 [] OTHER -> t2] :
         a1 \in EnvValues(<<"e","a">>), a2 \in AliasValues(<<"t","a">>),
         t1 \in EnvValues(<<"e","c">>), t2 \in AliasValues(<<"t","c">>) }

SourceNames == {"safari", "chrome", "firefox"}

CookieSourceSet ==
  LET \* An explicit array names each browser at most once.
      SourceLists ==
        { l \in SeqsUpTo(SourceNames, MaxSources) :
            \A i, j \in 1..Len(l) : i # j => l[i] # l[j] }
  IN { [kind |-> "undefined", list |-> <<>>] }
       \cup { [kind |-> "single", list |-> <<s>>] : s \in SourceNames }
       \cup { [kind |-> "array", list |-> l] : l \in SourceLists }

ChromeProfiles == { Null, Some("Work") }
FirefoxProfiles == { Null, Some("dev-edition") }

OptionsSet ==
  LET CliAuthValues == { Null, Some(<<>>), Some(<<"c","a">>) }
      CliCt0Values  == { Null, Some(<<"c","c">>), Some(<<"c","b"," ">>) }
      \* The two profile options are given together or not at all.
      ProfileSet ==
        { p \in [chrome : ChromeProfiles, firefox : FirefoxProfiles] :
            (p.chrome = Null) <=> (p.firefox = Null) }
  IN { [authToken |-> a, ct0 |-> t, cookieSource |-> cs,
        chromeProfile |-> p.chrome, firefoxProfile |-> p.firefox] :
         a \in CliAuthValues, t \in CliCt0Values, cs \in CookieSourceSet, p \in ProfileSet }

SafariRecords ==
  { [domain |-> Some(<<".","x",".","c","o","m">>), name |-> Some(AUTH_TOKEN_NAME),
     value |-> Some(<<"s","a">>)],
    [domain |-> Some(<<"T","w","i","t","t","e","r",".","c","o","m">>),
     name |-> Some(CT0_NAME), value |-> Some(<<"s","c"," ">>)],
    [domain |-> Some(<<".","x",".","c","o","m">>), name |-> Some(KDT_NAME),
     value |-> Some(<<"s","k">>)],
    [domain |-> Some(<<"n","o","t","x",".","c","o","m">>), name |-> Some(AUTH_TOKEN_NAME),
     value |-> Some(<<"z","z">>)],
    [domain |-> Some(<<"t","w","i","t","t","e","r",".","c","o","m">>),
     name |-> Some(AUTH_TOKEN_NAME), value |-> Some(<<"s","b">>)] }

SafariStores ==
  { [status |-> f, rows |-> <<>>] :
      f \in {"notFound", "mkdtempFails", "copyFails", "readFails", "badMagic"} }
    \cup { [status |-> "ok", rows |-> r] : r \in SeqsUpTo(SafariRecords, MaxRows) }

ChromeRowSet ==
  { [name |-> AUTH_TOKEN_NAME, enc |-> [kind |-> "legacy", plain |-> <<"g","a","0","1">>]],
    [name |-> CT0_NAME, enc |-> [kind |-> "v10", plain |-> <<"\t","g","c">>]],
    [name |-> KDT_NAME, enc |-> [kind |-> "legacy", plain |-> <<"g","k">>]],
    [name |-> AUTH_TOKEN_NAME, enc |-> [kind |-> "legacy", plain |-> <<"g","b","0","2">>]] }

KeychainOutcomes == {"ok", "missing", "throws", "wrong", "wrongPads"}

ChromeStores ==
  { [status |-> f, rows |-> <<>>, keychain |-> "ok"] :
      f \in {"notFound", "mkdtempFails", "copyFails", "execFails"} }
    \cup { [status |-> "ok", rows |-> r, keychain |-> k] :
             r \in SeqsUpTo(ChromeRowSet, MaxRows), k \in KeychainOutcomes }

FirefoxRowSet ==
  { [name |-> AUTH_TOKEN_NAME, value |-> <<"f","a">>],
    [name |-> CT0_NAME, value |-> <<"f","c">>],
    [name |-> KDT_NAME, value |-> <<"f","k">>],
    [name |-> AUTH_TOKEN_NAME, value |-> <<"f","b">>] }

FirefoxStores ==
  { [status |-> f, rows |-> <<>>, listing |-> l] :
      f \in {"noRoot", "noDb", "mkdtempFails", "copyFails", "execFails"},
      l \in {"ok", "throws"} }
    \cup { [status |-> "ok", rows |-> r, listing |-> l] :
             r \in SeqsUpTo(FirefoxRowSet, MaxRows), l \in {"ok", "throws"} }
    \* a store whose auth_token is held twice, next to a ct0
    \cup { [status |-> "ok", listing |-> "ok",
             rows |-> << [name |-> AUTH_TOKEN_NAME, value |-> <<"f","a">>],
                         [name |-> AUTH_TOKEN_NAME, value |-> <<"f","b">>],
                         [name |-> CT0_NAME, value |-> <<"f","c">>] >>] }

----------------------------------------------------------------------------
(* The state machine                                                       *)

\* no vendor store, no temp directory
EmptyDisk == [vendor |-> {}, temp |-> {}, made |-> 0, rmFailed |-> {}]

Init ==
  /\ options \in OptionsSet
  /\ env \in EnvSet
  /\ pc = "cli"
  /\ cookies = EmptyCookies
  /\ warnings = <<>>
  /\ idx = 1
  /\ returned = Null
  /\ attempts = <<>>
  /\ call = Null
  /\ result = Null
  /\ input = Null
  /\ output = Null
  /\ run = Null
  /\ disk = EmptyDisk
  /\ fsLog = <<>>
  /\ req = Null
  /\ cmd = Null
  /\ paging = Null

\* lines 495-503
StepCliArguments ==
  /\ pc = "cli"
  /\ cookies' = CliArguments(cookies, options)
  /\ pc' = "env"
  /\ UNCHANGED <<req, cmd, paging, input, output, run, disk, fsLog, options, env, warnings, idx, returned, attempts, call, result>>

\* lines 505-529
StepEnvironmentVariables ==
  /\ pc = "env"
  /\ cookies' = EnvironmentVariables(cookies, env)
  /\ pc' = "check"
  /\ UNCHANGED <<req, cmd, paging, input, output, run, disk, fsLog, options, env, warnings, idx, returned, attempts, call, result>>

\* lines 531-534: both tokens are set, return without probing a browser
ReturnComplete ==
  /\ pc = "check"
  /\ Complete(cookies)
  /\ cookies' = WithHeader(cookies)
  /\ returned' = Some([cookies |-> cookies', warnings |-> warnings])
  /\ pc' = "done"
  /\ UNCHANGED <<req, cmd, paging, input, output, run, disk, fsLog, options, env, warnings, idx, attempts, call, result>>

\* a faulty variant of BeginCascade: the browsers are probed although both tokens are set
BeginCascadeAlways ==
  /\ pc = "check"
  /\ pc' = "cascade"
  /\ idx' = 1
  /\ UNCHANGED <<req, cmd, paging, input, output, run, disk, fsLog, options, env, cookies, warnings, returned, attempts, call, result>>

\* lines 536-540
BeginCascade ==
  /\ pc = "check"
  /\ ~Complete(cookies)
  /\ pc' = "cascade"
  /\ idx' = 1
  /\ UNCHANGED <<req, cmd, paging, input, output, run, disk, fsLog, options, env, cookies, warnings, returned, attempts, call, result>>

AttemptKind(r) ==
  IF r.threw THEN "threw"
  ELSE IF Complete(r.cookies) THEN "complete"
  ELSE IF Truthy(r.cookies.authToken) \/ Truthy(r.cookies.ct0) THEN "partial"
  ELSE "none"

\* a faulty variant of CascadeWarnings: a reader's warnings replace the earlier ones
CascadeWarningsReplace(ws, r) == r.warnings

\* warnings.push(...result.warnings)
CascadeWarnings(ws, r) == ws \o r.warnings

\* a faulty variant of CascadeAccepts: one token is enough
CascadeAcceptsPartial(r) ==
  Truthy(r.cookies.authToken) \/ Truthy(r.cookies.ct0)

\* `if (result.cookies.authToken && result.cookies.ct0)`
CascadeAccepts(r) == Truthy(r.cookies.authToken) /\ Truthy(r.cookies.ct0)

\* a faulty variant of CascadeReturn: the reader's tokens are merged into the local ones
CascadeReturnMerged(c, r) ==
  [r.cookies EXCEPT !.authToken = IF Truthy(c.authToken) THEN c.authToken ELSE @,
                    !.ct0 = IF Truthy(c.ct0) THEN c.ct0 ELSE @]

\* `return { cookies: result.cookies, warnings }`
CascadeReturn(c, r) == r.cookies

\* a faulty variant of CascadeKeep: a token of a partial source fills an empty slot
CascadeKeepMerge(c, r) ==
  [c EXCEPT !.authToken = IF Truthy(@) THEN @ ELSE r.cookies.authToken,
            !.ct0 = IF Truthy(@) THEN @ ELSE r.cookies.ct0]

\* `continue`: a source that is not accepted leaves the local cookies alone
CascadeKeep(c, r) == c

\* One iteration of the loop over sourcesToTry, r being what the awaited
\* reader settled with.
CascadeStep(source, r) ==
  /\ attempts' = Append(attempts, [source |-> source, warnings |-> r.warnings,
                                   kind |-> AttemptKind(r)])
  /\ IF r.threw
     THEN /\ pc' = "rejected"
          /\ UNCHANGED <<req, cookies, warnings, idx, returned>>
     ELSE /\ warnings' = CascadeWarnings(warnings, r)
          /\ IF CascadeAccepts(r)
             THEN /\ returned' = Some([cookies |-> CascadeReturn(cookies, r),
                                       warnings |-> warnings'])
                  /\ pc' = "done"
                  /\ UNCHANGED <<req, cookies, idx>>
             ELSE /\ cookies' = CascadeKeep(cookies, r)
                  /\ idx' = idx + 1
                  /\ UNCHANGED <<req, pc, returned>>
  /\ UNCHANGED <<req, cmd, paging, input, output, run, disk, fsLog, options, env, call, result>>

InCascade(source) ==
  /\ pc = "cascade"
  /\ idx <= Len(sourcesToTry(options.cookieSource))
  /\ sourcesToTry(options.cookieSource)[idx] = source

\* What `await extractCookiesFrom...()` can settle with, over every state the
\* browser's store may be in when the reader runs.
SafariOutcomes == { extractCookiesFromSafari(st) : st \in SafariStores }

ChromeOutcomes ==
  [p \in ChromeProfiles |-> { extractCookiesFromChrome(st, p) : st \in ChromeStores }]

FirefoxOutcomes ==
  [p \in FirefoxProfiles |-> { extractCookiesFromFirefox(st, p) : st \in FirefoxStores }]

\* lines 543-550
TrySafari ==
  /\ InCascade("safari")
  /\ \E r \in SafariOutcomes : CascadeStep("safari", r)

\* lines 552-559
TryChrome ==
  /\ InCascade("chrome")
  /\ \E r \in ChromeOutcomes[options.chromeProfile] : CascadeStep("chrome", r)

\* lines 561-567
TryFirefox ==
  /\ InCascade("firefox")
  /\ \E r \in FirefoxOutcomes[options.firefoxProfile] : CascadeStep("firefox", r)

\* lines 570-584
Validation ==
  /\ pc = "cascade"
  /\ idx > Len(sourcesToTry(options.cookieSource))
  /\ warnings' = warnings \o MissingWarnings(cookies)
  /\ cookies' = WithHeader(cookies)
  /\ returned' = Some([cookies |-> cookies', warnings |-> warnings'])
  /\ pc' = "done"
  /\ UNCHANGED <<req, cmd, paging, input, output, run, disk, fsLog, options, env, idx, attempts, call, result>>

Next ==
  \/ StepCliArguments
  \/ StepEnvironmentVariables
  \/ ReturnComplete
  \/ BeginCascade
  \/ TrySafari
  \/ TryChrome
  \/ TryFirefox
  \/ Validation

Spec == Init /\ [][Next]_vars

----------------------------------------------------------------------------
(* A browser reader called on its own                                      *)

ReaderCalls ==
  { [reader |-> "safari", store |-> st, profile |-> Null] : st \in SafariStores }
    \cup { [reader |-> "chrome", store |-> st, profile |-> p] :
             st \in ChromeStores, p \in ChromeProfiles }
    \cup { [reader |-> "firefox", store |-> st, profile |-> p] :
             st \in FirefoxStores, p \in FirefoxProfiles }

InitReaders ==
  /\ options = [authToken |-> Null, ct0 |-> Null,
                cookieSource |-> [kind |-> "undefined", list |-> <<>>],
                chromeProfile |-> Null, firefoxProfile |-> Null]
  /\ env = [k \in {"AUTH_TOKEN", "TWITTER_AUTH_TOKEN", "CT0", "TWITTER_CT0"} |-> Null]
  /\ pc = "idle"
  /\ cookies = EmptyCookies
  /\ warnings = <<>>
  /\ idx = 1
  /\ returned = Null
  /\ attempts = <<>>
  /\ call \in { Some(c) : c \in ReaderCalls }
  /\ result = Null
  /\ input = Null
  /\ output = Null
  /\ run = Null
  /\ disk = EmptyDisk
  /\ fsLog = <<>>
  /\ req = Null
  /\ cmd = Null
  /\ paging = Null

Pending(reader) == pc = "idle" /\ result = Null /\ call[1].reader = reader

CallSafari ==
  /\ Pending("safari")
  /\ result' = Some(extractCookiesFromSafari(call[1].store))
  /\ UNCHANGED <<req, cmd, paging, input, output, run, disk, fsLog, options, env, pc, cookies, warnings, idx, returned, attempts, call>>

CallChrome ==
  /\ Pending("chrome")
  /\ result' = Some(extractCookiesFromChrome(call[1].store, call[1].profile))
  /\ UNCHANGED <<req, cmd, paging, input, output, run, disk, fsLog, options, env, pc, cookies, warnings, idx, returned, attempts, call>>

CallFirefox ==
  /\ Pending("firefox")
  /\ result' = Some(extractCookiesFromFirefox(call[1].store, call[1].profile))
  /\ UNCHANGED <<req, cmd, paging, input, output, run, disk, fsLog, options, env, pc, cookies, warnings, idx, returned, attempts, call>>

NextReaders ==
  \/ CallSafari
  \/ CallChrome
  \/ CallFirefox

SpecReaders == InitReaders /\ [][NextReaders]_vars

----------------------------------------------------------------------------
(* The Safari parser on the bytes of a container                           *)

\* the characters of the bytes 32..126 (the grave accent, 96, is left out)
Utf8Table ==
  << " ", "!", "\"", "#", "$", "%", "&", "'", "(", ")", "*", "+", ",", "-", ".", "/",
     "0", "1", "2", "3", "4", "5", "6", "7", "8", "9", ":", ";", "<", "=", ">", "?",
     "@", "A", "B", "C", "D", "E", "F", "G", "H", "I", "J", "K", "L", "M", "N", "O",
     "P", "Q", "R", "S", "T", "U", "V", "W", "X", "Y", "Z", "[", "\\", "]", "^", "_",
     "?", "a", "b", "c", "d", "e", "f", "g", "h", "i", "j", "k", "l", "m", "n", "o",
     "p", "q", "r", "s", "t", "u", "v", "w", "x", "y", "z", "{", "|", "}", "~" >>

\* buffer.toString('utf8', start, end); a byte outside 32..126 is shown as "?"
toString(buffer, start, end) ==
  [i \in 1..(end - start) |->
     IF buffer[start + i] \in 32..126 THEN Utf8Table[buffer[start + i] - 31] ELSE "?"]

readUInt32LE(buffer, offset) ==
  buffer[offset + 1] + 256 * buffer[offset + 2] + 65536 * buffer[offset + 3]
    + 16777216 * buffer[offset + 4]

\* st after a read of the n bytes at offset: outside records a read that
\* left the buffer
Touched(st, buffer, offset, n) ==
  [st EXCEPT !.outside = @ \/ (n > 0 /\ (offset < 0 \/ offset + n > Len(buffer)))]

\* `while (cursor < end && buffer[cursor] !== 0) cursor += 1`: the cursor
\* after the loop (a byte past the buffer is undefined, which is not 0)
RECURSIVE ScanCString(_, _, _)
ScanCString(buffer, cursor, end) ==
  IF cursor < end /\ (cursor >= Len(buffer) \/ buffer[cursor + 1] # 0)
  THEN ScanCString(buffer, cursor + 1, end)
  ELSE cursor

\* a faulty variant of readSafariCString: the scan runs to the end of the page
readSafariCStringUnbounded(buffer, start, end) ==
  IF start < 0 \/ start >= end THEN Null
  ELSE LET cursor == ScanCString(buffer, start, Len(buffer))
       IN  IF cursor >= Len(buffer) THEN Null ELSE Some(toString(buffer, start, cursor))

readSafariCString(buffer, start, end) ==
  IF start < 0 \/ start >= end THEN Null
  ELSE LET cursor == ScanCString(buffer, start, end)
       IN  IF cursor >= end THEN Null ELSE Some(toString(buffer, start, cursor))

\* parseSafariCookieRecord on the bytes of a page: st holds the jar, the
\* cookies and whether a read left the buffer.
parseSafariCookieRecordAt(page, offset, st) ==
  IF offset < 0 \/ offset + 4 > Len(page) THEN st
  ELSE
    LET recordSize == readUInt32LE(page, offset)
        recordEnd == offset + recordSize
        headerStart == offset + 4
        headerSize == 4 + 4 + 4 + 4 + 4 + 4 + 4
        s1 == Touched(st, page, offset, 4)
    IN  IF recordSize <= 0 \/ recordEnd > Len(page) THEN s1
        ELSE IF headerStart + headerSize > recordEnd THEN s1
        ELSE
          LET \* the bytes a call readSafariCString(buffer, start, end) reads
              TouchedCString(s, buffer, start, end) ==
                IF start < 0 \/ start >= end THEN s
                ELSE LET cursor == ScanCString(buffer, start, end)
                     IN  Touched(s, buffer, start,
                                 (IF cursor >= end THEN end ELSE cursor + 1) - start)
              domainOffset == readUInt32LE(page, headerStart + 12)
              nameOffset == readUInt32LE(page, headerStart + 16)
              valueOffset == readUInt32LE(page, headerStart + 24)
              s2 == Touched(Touched(Touched(s1, page, headerStart + 12, 4),
                                    page, headerStart + 16, 4), page, headerStart + 24, 4)
              rec == [domain |-> readSafariCString(page, offset + domainOffset, recordEnd),
                      name |-> readSafariCString(page, offset + nameOffset, recordEnd),
                      value |-> readSafariCString(page, offset + valueOffset, recordEnd)]
              s3 == TouchedCString(TouchedCString(TouchedCString(s2,
                      page, offset + domainOffset, recordEnd),
                      page, offset + nameOffset, recordEnd),
                      page, offset + valueOffset, recordEnd)
              got == parseSafariCookieRecord(rec, [jar |-> st.jar, cookies |-> st.cookies])
          IN  [jar |-> got.jar, cookies |-> got.cookies, outside |-> s3.outside]

SAFARI_PAGE_SIGNATURE == <<0, 0, 1, 0>>

parseSafariCookiePage(page, st) ==
  IF Len(page) < 12 THEN st
  ELSE IF SubSeq(page, 1, 4) # SAFARI_PAGE_SIGNATURE THEN Touched(st, page, 0, 4)
  ELSE
    LET cookieCount == readUInt32LE(page, 4)
        s1 == Touched(Touched(st, page, 0, 4), page, 4, 4)
        \* the offsets loop returns as soon as an offset would lie past the page
        fits == { i \in 0..cookieCount : 8 + 4 * i <= Len(page) }
        read == CHOOSE i \in fits : \A j \in fits : j <= i
        s2 == Touched(s1, page, 8, 4 * read)
        offsets == [i \in 1..cookieCount |-> readUInt32LE(page, 8 + 4 * (i - 1))]
        records[k \in 0..cookieCount] ==
          IF k = 0 THEN s2 ELSE parseSafariCookieRecordAt(page, offsets[k], records[k - 1])
    IN  IF cookieCount = 0 THEN s1
        ELSE IF read < cookieCount THEN s2
        ELSE records[cookieCount]

\* parseSafariCookies on the bytes of the file
parseSafariCookiesBuffer(data, st) ==
  IF Len(data) < 8 THEN st
  ELSE IF toString(data, 0, 4) # <<"c","o","o","k">> THEN Touched(st, data, 0, 4)
  ELSE
    LET readUInt32BE(buffer, offset) ==
          16777216 * buffer[offset + 1] + 65536 * buffer[offset + 2]
            + 256 * buffer[offset + 3] + buffer[offset + 4]
        pageCount == readUInt32BE(data, 4)
        s1 == Touched(Touched(st, data, 0, 4), data, 4, 4)
        fits == { i \in 0..pageCount : 8 + 4 * i <= Len(data) }
        read == CHOOSE i \in fits : \A j \in fits : j <= i
        s2 == Touched(s1, data, 8, 4 * read)
        pageSizes == [i \in 1..pageCount |-> readUInt32BE(data, 8 + 4 * (i - 1))]
        \* the state and the cursor after the first k pages; done: returned
        pages[k \in 0..pageCount] ==
          IF k = 0 THEN [st |-> s2, cursor |-> 8 + 4 * pageCount, done |-> FALSE]
          ELSE LET p == pages[k - 1]
               IN  IF p.done \/ p.cursor + pageSizes[k] > Len(data)
                   THEN [p EXCEPT !.done = TRUE]
                   ELSE [st |-> parseSafariCookiePage(
                                  SubSeq(data, p.cursor + 1, p.cursor + pageSizes[k]),
                                  Touched(p.st, data, p.cursor, pageSizes[k])),
                         cursor |-> p.cursor + pageSizes[k], done |-> FALSE]
    IN  IF read < pageCount THEN s2 ELSE pages[pageCount].st

\* The bytes of a container written from a description of it: pages with or
\* without the page signature, each a list of units; a unit is a record and
\* what is wrong with it ("offset": its entry of the offset table points
\* past the page; "size": its length runs past the page; "noNul": its last
\* field has no NUL before the record end).
EncodeContainer(c) ==
  LET U32LE(n) == <<n % 256, (n \div 256) % 256, (n \div 65536) % 256, n \div 16777216>>
      U32BE(n) == <<n \div 16777216, (n \div 65536) % 256, (n \div 256) % 256, n % 256>>
      Bytes(s) == [i \in 1..Len(s) |-> 31 + CHOOSE b \in 1..95 : Utf8Table[b] = s[i]]
      CStr(s) == Bytes(s) \o <<0>>
      RecordBytes(u) ==
        LET d == u.rec.domain[1]
            n == u.rec.name[1]
            v == u.rec.value[1]
            body == CStr(d) \o CStr(n) \o CStr(<<"/">>)
                      \o (IF u.fault = "noNul" THEN Bytes(v) ELSE CStr(v))
            size == 32 + Len(body)
        IN  U32LE(IF u.fault = "size" THEN size + 4096 ELSE size)
              \o U32LE(0) \o U32LE(0) \o U32LE(0)
              \o U32LE(32) \o U32LE(32 + Len(d) + 1)
              \o U32LE(32 + Len(d) + Len(n) + 2) \o U32LE(32 + Len(d) + Len(n) + 4)
              \o body
      PageBytes(p) ==
        LET count == Len(p.units)
            all[k \in 0..count] ==
              IF k = 0 THEN <<>> ELSE all[k - 1] \o RecordBytes(p.units[k])
            start == 8 + 4 * count + 4
            table[k \in 0..count] ==
              IF k = 0 THEN <<>>
              ELSE table[k - 1] \o
                   U32LE(IF p.units[k].fault = "offset" THEN start + Len(all[count]) - 2
                         ELSE start + Len(all[k - 1]))
        IN  (IF p.signature THEN SAFARI_PAGE_SIGNATURE ELSE <<0, 0, 2, 0>>)
              \o U32LE(count) \o table[count] \o U32LE(0) \o all[count]
      pageCount == Len(c)
      sizes[k \in 0..pageCount] ==
        IF k = 0 THEN <<>> ELSE sizes[k - 1] \o U32BE(Len(PageBytes(c[k])))
      pages[k \in 0..pageCount] ==
        IF k = 0 THEN <<>> ELSE pages[k - 1] \o PageBytes(c[k])
  IN  Bytes(<<"c","o","o","k">>) \o U32BE(pageCount) \o sizes[pageCount] \o pages[pageCount]
        \o <<0, 0, 0, 0, 0, 0, 0, 0>>

\* The containers given to the parser byte by byte: one or two pages of up
\* to two units each, three units at most in all.
BinaryContainers ==
  LET units ==
        { [rec |-> [domain |-> Some(<<".","x",".","c","o","m">>),
                    name |-> Some(AUTH_TOKEN_NAME), value |-> Some(<<"s","a">>)],
           fault |-> "none"],
          [rec |-> [domain |-> Some(<<"t","w","i","t","t","e","r",".","c","o","m">>),
                    name |-> Some(CT0_NAME), value |-> Some(<<"s","c">>)],
           fault |-> "none"] }
          \cup { [rec |-> [domain |-> Some(<<".","x",".","c","o","m">>),
                           name |-> Some(AUTH_TOKEN_NAME), value |-> Some(<<"s","x">>)],
                  fault |-> f] : f \in {"offset", "size", "noNul"} }
      pages == { [signature |-> g, units |-> u] : g \in BOOLEAN, u \in SeqsUpTo(units, 2) }
      Units(c) == IF Len(c) = 1 THEN Len(c[1].units)
                  ELSE Len(c[1].units) + Len(c[2].units)
  IN  { c \in SeqsUpTo(pages, 2) \ {<<>>} : Units(c) <= 3 }

----------------------------------------------------------------------------
(* The Safari parser and decryptCookieValue, called on their own           *)

\* A faulty variant of pickFirefoxProfileIn: the first directory of the
\* listing is taken whatever its name.
pickFirefoxProfileFirstDir(entries, profile) ==
  IF Truthy(profile)
  THEN IF \E i \in 1..Len(entries) :
            entries[i].name = profile[1] /\ entries[i].isDirectory /\ entries[i].hasCookies
       THEN Some(<<profile[1], "cookies.sqlite">>) ELSE Null
  ELSE LET dirs == { i \in 1..Len(entries) : entries[i].isDirectory }
       IN IF dirs = {} THEN Null
          ELSE LET t == entries[CHOOSE i \in dirs : \A j \in dirs : i <= j]
               IN IF t.hasCookies THEN Some(<<t.name, "cookies.sqlite">>) ELSE Null

\* pickFirefoxProfile on a listing of the profiles root.  An entry is
\* [name, isDirectory, hasCookies]; hasCookies says whether cookies.sqlite
\* exists below it.  The result is the path below the root, or Null.
pickFirefoxProfileIn(entries, profile) ==
  IF Truthy(profile)
  THEN IF \E i \in 1..Len(entries) :
            entries[i].name = profile[1] /\ entries[i].isDirectory /\ entries[i].hasCookies
       THEN Some(<<profile[1], "cookies.sqlite">>) ELSE Null
  ELSE LET Includes(s, sub) ==
             \E i \in 1..(Len(s) - Len(sub) + 1) : SubSeq(s, i, i + Len(sub) - 1) = sub
           dirs == { i \in 1..Len(entries) : entries[i].isDirectory }
           rel == { i \in dirs :
                      Includes(entries[i].name,
                               <<"d","e","f","a","u","l","t","-","r","e","l","e","a","s","e">>) }
           pick == IF rel # {} THEN rel ELSE dirs
       IN IF pick = {} THEN Null
          ELSE LET t == entries[CHOOSE i \in pick : \A j \in pick : i <= j]
               IN IF Len(t.name) = 0 THEN Null
                  ELSE IF t.hasCookies THEN Some(<<t.name, "cookies.sqlite">>) ELSE Null

DecryptValues ==
  { [kind |-> "legacy", plain |-> v] :
      v \in { <<>>, <<"g","k">>, <<"g","k","d">>, <<"g","a","0","1">>,
              <<"g","\t","c","0","1">> } }
    \cup { [kind |-> k, plain |-> <<"\t","g","c">>] : k \in {"v10", "v11", "v10cut"} }
    \cup { [kind |-> k, plain |-> v] :
             k \in {"v10", "v11"},
             v \in { [i \in 1..HEX_RUN_MIN |-> "a"] \o <<"\n">> \o [i \in 1..(HEX_RUN_MIN + 1) |-> "b"],
                     [i \in 1..HEX_RUN_MIN |-> "A"],
                     <<"\t">> \o [i \in 1..HEX_RUN_MIN |-> "c"] \o <<"#">>,
                     [i \in 1..(HEX_RUN_MIN - 1) |-> "d"] \o <<"\n">> } }

\* The records of a well-formed container: those of SafariRecords, a second
\* auth_token (of twitter.com), a ct0 whose value is blank, a cookie of a
\* subdomain, a cookie whose name is a space and one whose name is empty.
\* A container holds a cookie (domain, name) once.
Containers ==
  LET ContainerRecords ==
        SafariRecords \cup
        { [domain |-> Some(<<"t","w","i","t","t","e","r",".","c","o","m">>),
           name |-> Some(AUTH_TOKEN_NAME), value |-> Some(<<"s","b">>)],
          [domain |-> Some(<<".","x",".","c","o","m">>), name |-> Some(CT0_NAME),
           value |-> Some(<<" ">>)],
          [domain |-> Some(<<"a",".","X",".","c","o","m">>), name |-> Some(<<"g","t">>),
           value |-> Some(<<"s","g">>)],
          [domain |-> Some(<<".","x",".","c","o","m">>), name |-> Some(<<" ">>),
           value |-> Some(<<"s","v">>)],
          [domain |-> Some(<<".","x",".","c","o","m">>), name |-> Some(<<>>),
           value |-> Some(<<"s","w">>)] }
  IN { r \in SeqsUpTo(ContainerRecords, MaxRows) :
         \A i, j \in 1..Len(r) :
           i # j => (r[i].domain # r[j].domain \/ r[i].name # r[j].name) }

FunctionCalls ==
  { [fn |-> "parseSafariCookies", records |-> r] : r \in Containers }
    \cup { [fn |-> "decryptCookieValue", enc |-> e, keychain |-> k] :
             e \in DecryptValues, k \in KeychainOutcomes }
    \cup { [fn |-> "parseSafariCookiesBuffer", container |-> c] : c \in BinaryContainers }
    \cup
    \* Listings of a profiles root: directories with and without
    \* cookies.sqlite, named with and without "default-release", and files.
    LET ProfileEntries ==
        LET rel == <<".","d","e","f","a","u","l","t","-","r","e","l","e","a","s","e">>
        IN { [name |-> <<"a",".","d","e","f","a","u","l","t">>, isDirectory |-> TRUE, hasCookies |-> TRUE],
             [name |-> <<"b">> \o rel, isDirectory |-> TRUE, hasCookies |-> TRUE],
             [name |-> <<"c">> \o rel \o <<"-","1">>, isDirectory |-> TRUE, hasCookies |-> FALSE],
             [name |-> <<"e">> \o rel, isDirectory |-> TRUE, hasCookies |-> TRUE],
             [name |-> <<"d">> \o rel, isDirectory |-> FALSE, hasCookies |-> FALSE],
             [name |-> <<"p","r","o","f","i","l","e","s",".","i","n","i">>,
              isDirectory |-> FALSE, hasCookies |-> FALSE] }
    IN { [fn |-> "pickFirefoxProfile", entries |-> l, profile |-> p] :
             l \in { q \in SeqsUpTo(ProfileEntries, 3) :
                       \A i, j \in 1..Len(q) : i # j => q[i].name # q[j].name },
             p \in { Null, Some(<<>>), Some(<<"a",".","d","e","f","a","u","l","t">>),
                     Some(<<"p","r","o","f","i","l","e","s",".","i","n","i">>),
                     Some(<<"z">>) } }

InitFunctions ==
  /\ options = [authToken |-> Null, ct0 |-> Null,
                cookieSource |-> [kind |-> "undefined", list |-> <<>>],
                chromeProfile |-> Null, firefoxProfile |-> Null]
  /\ env = [k \in {"AUTH_TOKEN", "TWITTER_AUTH_TOKEN", "CT0", "TWITTER_CT0"} |-> Null]
  /\ pc = "idle"
  /\ cookies = EmptyCookies
  /\ warnings = <<>>
  /\ idx = 1
  /\ returned = Null
  /\ attempts = <<>>
  /\ call = Null
  /\ result = Null
  /\ input \in { Some(c) : c \in FunctionCalls }
  /\ output = Null
  /\ run = Null
  /\ disk = EmptyDisk
  /\ fsLog = <<>>
  /\ req = Null
  /\ cmd = Null
  /\ paging = Null

ApplyParseSafariCookies ==
  /\ output = Null
  /\ input[1].fn = "parseSafariCookies"
  /\ output' = Some(parseSafariCookies(input[1].records,
                                       [jar |-> <<>>, cookies |-> EmptyCookies]))
  /\ UNCHANGED <<req, cmd, paging, options, env, pc, cookies, warnings, idx, returned, attempts,
                 call, result, input, run, disk, fsLog>>

ApplyDecryptCookieValue ==
  /\ output = Null
  /\ input[1].fn = "decryptCookieValue"
  /\ output' = Some([value |-> decryptCookieValue(input[1].enc, input[1].keychain),
                     queried |-> decryptTry(input[1].enc, input[1].keychain).queried])
  /\ UNCHANGED <<req, cmd, paging, options, env, pc, cookies, warnings, idx, returned, attempts,
                 call, result, input, run, disk, fsLog>>

ApplyParseSafariCookiesBuffer ==
  /\ output = Null
  /\ input[1].fn = "parseSafariCookiesBuffer"
  /\ output' = Some(parseSafariCookiesBuffer(EncodeContainer(input[1].container),
                      [jar |-> <<>>, cookies |-> EmptyCookies, outside |-> FALSE]))
  /\ UNCHANGED <<req, cmd, paging, options, env, pc, cookies, warnings, idx, returned, attempts,
                 call, result, input, run, disk, fsLog>>

ApplyPickFirefoxProfile ==
  /\ output = Null
  /\ input[1].fn = "pickFirefoxProfile"
  /\ output' = Some([path |-> pickFirefoxProfileIn(input[1].entries, input[1].profile)])
  /\ UNCHANGED <<req, cmd, paging, options, env, pc, cookies, warnings, idx, returned, attempts,
                 call, result, input, run, disk, fsLog>>

NextFunctions ==
  \/ ApplyParseSafariCookies
  \/ ApplyDecryptCookieValue
  \/ ApplyParseSafariCookiesBuffer
  \/ ApplyPickFirefoxProfile

SpecFunctions == InitFunctions /\ [][NextFunctions]_vars

----------------------------------------------------------------------------
(* A browser reader followed statement by statement: the files it touches  *)

\* The vendor files a reader looks for.  "safari" is Cookies.binarycookies,
\* "chrome" the Cookies database of the profile, "firefoxRoot" the profiles
\* directory and "firefoxDb" the cookies.sqlite of the profile picked.
VendorFiles == {"safari", "chrome", "chrome-wal", "chrome-shm", "firefoxRoot", "firefoxDb"}

\* disk.vendor: the vendor files that exist; disk.temp: the temp directories
\* that exist; disk.made: how many mkdtempSync made; disk.rmFailed: the
\* directories on which rmSync threw.
Disks ==
  { [vendor |-> v, temp |-> {}, made |-> 0, rmFailed |-> {}] :
      v \in { w \in SUBSET VendorFiles :
                /\ ("chrome-wal" \in w \/ "chrome-shm" \in w) => "chrome" \in w
                /\ "firefoxDb" \in w => "firefoxRoot" \in w } }

IdleRun ==
  [reader |-> "none", profile |-> Null, store |-> [status |-> "ok"], at |-> "idle",
   tempDir |-> Null, result |-> Null, done |-> {}]

\* the call of the try block that throws, if one does
Faults(reader) ==
  CASE reader = "safari" -> {"ok", "badMagic", "mkdtempFails", "copyFails", "readFails"}
    [] OTHER -> {"ok", "mkdtempFails", "copyFails", "execFails"}

\* what the store holds when it is read: nothing or both tokens
FileRows(reader) ==
  CASE reader = "safari" ->
         { <<>>,
           << [domain |-> Some(<<".","x",".","c","o","m">>), name |-> Some(AUTH_TOKEN_NAME),
               value |-> Some(<<"s","a">>)],
              [domain |-> Some(<<".","x",".","c","o","m">>), name |-> Some(CT0_NAME),
               value |-> Some(<<"s","c">>)] >> }
    [] reader = "chrome" ->
         { <<>>,
           << [name |-> AUTH_TOKEN_NAME, enc |-> [kind |-> "legacy", plain |-> <<"g","a","0","1">>]],
              [name |-> CT0_NAME, enc |-> [kind |-> "v10", plain |-> <<"\t","g","c">>]] >> }
    [] OTHER ->
         { <<>>,
           << [name |-> AUTH_TOKEN_NAME, value |-> <<"f","a">>],
              [name |-> CT0_NAME, value |-> <<"f","c">>] >> }

\* The store as the reader will find it: what exists is read off the disk,
\* the rest is the fault and the rows chosen for this call.
StoreOf(reader, vendor, fault, rows, listing) ==
  CASE reader = "safari" ->
         IF "safari" \notin vendor THEN [status |-> "notFound", rows |-> <<>>]
         ELSE [status |-> fault, rows |-> IF fault = "ok" THEN rows ELSE <<>>]
    [] reader = "chrome" ->
         IF "chrome" \notin vendor THEN [status |-> "notFound", rows |-> <<>>, keychain |-> "ok"]
         ELSE [status |-> fault, rows |-> IF fault = "ok" THEN rows ELSE <<>>, keychain |-> "ok"]
    [] OTHER ->
         IF "firefoxRoot" \notin vendor
         THEN [status |-> "noRoot", rows |-> <<>>, listing |-> "ok"]
         ELSE IF "firefoxDb" \notin vendor
         THEN [status |-> "noDb", rows |-> <<>>, listing |-> listing]
         ELSE [status |-> fault, rows |-> IF fault = "ok" THEN rows ELSE <<>>,
               listing |-> listing]

LogEntry(op, area, file, dir, ok) ==
  [op |-> op, area |-> area, file |-> file, dir |-> dir, ok |-> ok]

MainFile(reader) ==
  CASE reader = "safari" -> "safari" [] reader = "chrome" -> "chrome" [] OTHER -> "firefoxDb"

InitFiles ==
  /\ options = [authToken |-> Null, ct0 |-> Null,
                cookieSource |-> [kind |-> "undefined", list |-> <<>>],
                chromeProfile |-> Null, firefoxProfile |-> Null]
  /\ env = [k \in {"AUTH_TOKEN", "TWITTER_AUTH_TOKEN", "CT0", "TWITTER_CT0"} |-> Null]
  /\ pc = "idle"
  /\ cookies = EmptyCookies
  /\ warnings = <<>>
  /\ idx = 1
  /\ returned = Null
  /\ attempts = <<>>
  /\ call = Null
  /\ result = Null
  /\ input = Null
  /\ output = Null
  /\ run = IdleRun
  /\ disk \in Disks
  /\ fsLog = <<>>
  /\ req = Null
  /\ cmd = Null
  /\ paging = Null

\* resolveCredentials awaits the next reader of its list; each browser is
\* read at most once.
BeginRun ==
  /\ run.at \in {"idle", "returned"}
  /\ \E reader \in SourceNames \ run.done,
        profile \in {Null, Some("Work")},
        fault \in {"ok", "badMagic", "mkdtempFails", "copyFails", "readFails", "execFails"},
        listing \in {"ok", "throws"} :
       /\ fault \in Faults(reader)
       /\ reader = "safari" => profile = Null
       /\ \E rows \in FileRows(reader) :
            run' = [reader |-> reader, profile |-> profile,
                    store |-> StoreOf(reader, disk.vendor, fault, rows, listing),
                    at |-> "locate", tempDir |-> Null, result |-> Null,
                    done |-> run.done \cup {reader}]
  /\ fsLog' = <<>>
  /\ UNCHANGED <<req, cmd, paging, options, env, pc, cookies, warnings, idx, returned, attempts,
                 call, result, input, output, disk>>

\* getSafariCookiesPath / existsSync(cookiesPath) / getFirefoxCookiesPath
Locate ==
  /\ run.at = "locate"
  /\ IF run.reader = "firefox"
     THEN LET cookiesPath == getFirefoxCookiesPath(run.store, run.profile)
              rootThere == run.store.status # "noRoot"
          IN  /\ fsLog' = fsLog
                   \o <<LogEntry("existsSync", "vendor", "firefoxRoot", 0, TRUE)>>
                   \o (IF rootThere /\ run.profile = Null
                       THEN <<LogEntry("readdirSync", "vendor", "firefoxRoot", 0,
                                       cookiesPath # "throws")>>
                       ELSE <<>>)
                   \o (IF rootThere /\ cookiesPath # "throws"
                       THEN <<LogEntry("existsSync", "vendor", "firefoxDb", 0, TRUE)>>
                       ELSE <<>>)
              /\ run' = [run EXCEPT !.at = CASE cookiesPath = "throws" -> "rejected"
                                            [] cookiesPath = "null" -> "return"
                                            [] OTHER -> "mkdtemp"]
     ELSE /\ fsLog' = Append(fsLog, LogEntry("existsSync", "vendor", MainFile(run.reader), 0, TRUE))
          /\ run' = [run EXCEPT !.at = IF run.store.status = "notFound"
                                       THEN "return" ELSE "mkdtemp"]
  /\ UNCHANGED <<req, cmd, paging, options, env, pc, cookies, warnings, idx, returned, attempts,
                 call, result, input, output, disk>>

\* a faulty variant of AfterThrow: the catch block returns without the cleanup
AfterThrowSkipsCleanup(r) == "return"

\* a call of the try block threw: the catch block, then the finally block
AfterThrow(r) == "finally"

\* tempDir = mkdtempSync(join(tmpdir(), 'twitter-cli-'))
Mkdtemp ==
  /\ run.at = "mkdtemp"
  /\ IF run.store.status = "mkdtempFails"
     THEN /\ fsLog' = Append(fsLog, LogEntry("mkdtempSync", "temp", "", 0, FALSE))
          /\ run' = [run EXCEPT !.at = AfterThrow(run)]
          /\ disk' = disk
     ELSE LET dir == disk.made + 1
          IN  /\ fsLog' = Append(fsLog, LogEntry("mkdtempSync", "temp", "", dir, TRUE))
              /\ disk' = [disk EXCEPT !.temp = @ \cup {dir}, !.made = dir]
              /\ run' = [run EXCEPT !.at = "copy", !.tempDir = Some(dir)]
  /\ UNCHANGED <<req, cmd, paging, options, env, pc, cookies, warnings, idx, returned, attempts,
                 call, result, input, output>>

\* the files copyFileSync is called on, in order: the store, then (Chrome)
\* the -wal and -shm files that exist
FilesToCopy(reader, vendor) ==
  <<MainFile(reader)>>
    \o (IF reader = "chrome" /\ "chrome-wal" \in vendor THEN <<"chrome-wal">> ELSE <<>>)
    \o (IF reader = "chrome" /\ "chrome-shm" \in vendor THEN <<"chrome-shm">> ELSE <<>>)

\* existsSync of a sidecar of Chrome and, when it exists, its copy
SidecarLog(file, vendor, dir, failFile) ==
  <<LogEntry("existsSync", "vendor", file, 0, TRUE)>>
    \o (IF file \in vendor
        THEN <<LogEntry("copyFileSync", "temp", file, dir, file # failFile)>>
        ELSE <<>>)

\* the calls made while copying, up to the copy of failFile, which throws
\* ("none": no copy throws)
CopyLog(reader, vendor, dir, failFile) ==
  <<LogEntry("copyFileSync", "temp", MainFile(reader), dir, MainFile(reader) # failFile)>>
    \o (IF reader = "chrome" /\ failFile # "chrome"
        THEN SidecarLog("chrome-wal", vendor, dir, failFile)
               \o (IF failFile # "chrome-wal"
                   THEN SidecarLog("chrome-shm", vendor, dir, failFile) ELSE <<>>)
        ELSE <<>>)

\* copyFileSync(cookiesPath, tempPath), and the sidecars of Chrome
Copy ==
  /\ run.at = "copy"
  /\ LET files == FilesToCopy(run.reader, disk.vendor)
         dir == run.tempDir[1]
     IN  IF run.store.status = "copyFails"
         THEN \E i \in 1..Len(files) :
                /\ fsLog' = fsLog \o CopyLog(run.reader, disk.vendor, dir, files[i])
                /\ run' = [run EXCEPT !.at = AfterThrow(run)]
         ELSE /\ fsLog' = fsLog \o CopyLog(run.reader, disk.vendor, dir, "none")
              /\ run' = [run EXCEPT !.at = "read"]
  /\ UNCHANGED <<req, cmd, paging, options, env, pc, cookies, warnings, idx, returned, attempts,
                 call, result, input, output, disk>>

\* a faulty variant of ReadTarget: the store is read in place
ReadTargetOriginal(r) == [area |-> "vendor", dir |-> 0]

\* readFileSync(tempCookiesPath) / sqlite3 "${tempDbPath}": the copy is read
ReadTarget(r) == [area |-> "temp", dir |-> r.tempDir[1]]

\* readFileSync and the parser (Safari), the sqlite3 subprocess (Chrome, Firefox)
Read ==
  /\ run.at = "read"
  /\ LET ok == run.store.status \notin {"readFails", "execFails"}
         t == ReadTarget(run)
     IN  /\ fsLog' = Append(fsLog,
                        LogEntry(IF run.reader = "safari" THEN "readFileSync" ELSE "sqlite3",
                                 t.area, MainFile(run.reader), t.dir, ok))
         /\ run' = [run EXCEPT !.at = IF ok THEN "finally" ELSE AfterThrow(run)]
  /\ UNCHANGED <<req, cmd, paging, options, env, pc, cookies, warnings, idx, returned, attempts,
                 call, result, input, output, disk>>

\* finally { if (tempDir) { try { rmSync(tempDir, ...) } catch { } } }
Finally ==
  /\ run.at = "finally"
  /\ IF run.tempDir = Null
     THEN /\ UNCHANGED <<req, disk, fsLog>>
     ELSE LET dir == run.tempDir[1]
          IN  \E ok \in BOOLEAN :
                /\ fsLog' = Append(fsLog, LogEntry("rmSync", "temp", "", dir, ok))
                /\ disk' = IF ok THEN [disk EXCEPT !.temp = @ \ {dir}]
                           ELSE [disk EXCEPT !.rmFailed = @ \cup {dir}]
  /\ run' = [run EXCEPT !.at = "return"]
  /\ UNCHANGED <<req, cmd, paging, options, env, pc, cookies, warnings, idx, returned, attempts,
                 call, result, input, output>>

\* return { cookies, warnings }
Return ==
  /\ run.at = "return"
  /\ run' = [run EXCEPT !.at = "returned",
                        !.result = Some(CASE run.reader = "safari" ->
                                               extractCookiesFromSafari(run.store)
                                          [] run.reader = "chrome" ->
                                               extractCookiesFromChrome(run.store, run.profile)
                                          [] OTHER ->
                                               extractCookiesFromFirefox(run.store, run.profile))]
  /\ UNCHANGED <<req, cmd, paging, options, env, pc, cookies, warnings, idx, returned, attempts,
                 call, result, input, output, disk, fsLog>>

NextFiles ==
  \/ BeginRun
  \/ Locate
  \/ Mkdtemp
  \/ Copy
  \/ Read
  \/ Finally
  \/ Return

SpecFiles == InitFiles /\ [][NextFiles]_vars

----------------------------------------------------------------------------
(* The CLI commands: read, replies, thread, lists, list-timeline, tweet,   *)
(* reply                                                                   *)

\* the leading decimal digits of s: how many there are and their value
RECURSIVE ParseDigits(_, _, _)
ParseDigits(s, n, v) ==
  IF s = <<>> \/ Head(s) \notin {"0","1","2","3","4","5","6","7","8","9"}
  THEN [n |-> n, v |-> v]
  ELSE ParseDigits(Tail(s), n + 1,
         10 * v + (CASE Head(s) = "0" -> 0 [] Head(s) = "1" -> 1 [] Head(s) = "2" -> 2
                     [] Head(s) = "3" -> 3 [] Head(s) = "4" -> 4 [] Head(s) = "5" -> 5
                     [] Head(s) = "6" -> 6 [] Head(s) = "7" -> 7 [] Head(s) = "8" -> 8
                     [] OTHER -> 9))

\* Number.parseInt(s, 10): leading whitespace and a sign are accepted, the
\* digits that follow are read and the rest of the string is ignored; Null
\* stands for NaN.
parseInt(s) ==
  LET t == TrimStart(s)
      signed == t # <<>> /\ Head(t) \in {"-", "+"}
      d == ParseDigits(IF signed THEN Tail(t) ELSE t, 0, 0)
  IN  IF d.n = 0 THEN Null
      ELSE Some(IF signed /\ Head(t) = "-" THEN 0 - d.v ELSE d.v)

\* a faulty variant of CredentialsMissing: one token is enough to go on
CredentialsMissingBoth(c) == ~Truthy(c.authToken) /\ ~Truthy(c.ct0)

\* `if (!cookies.authToken || !cookies.ct0)`
CredentialsMissing(c) == ~Truthy(c.authToken) \/ ~Truthy(c.ct0)

\* a faulty variant of resolveSweetisticsConfig: the environment is not consulted
resolveSweetisticsConfigOptionOnly(c) == c.apiKey

\* resolveSweetisticsConfig: the apiKey (Null when none is set)
resolveSweetisticsConfig(c) ==
  IF Truthy(c.apiKey) THEN c.apiKey
  ELSE IF Truthy(c.envApiKey) THEN c.envApiKey
  ELSE IF Truthy(c.envLocalhostApiKey) THEN c.envLocalhostApiKey
  ELSE Null

\* what resolveCredentials may give a command
CredentialResults ==
  { [cookies |-> WithHeader([EmptyCookies EXCEPT !.authToken = a, !.ct0 = t]),
     warnings |-> pre \o MissingWarnings([EmptyCookies EXCEPT !.authToken = a, !.ct0 = t])] :
      a \in {Null, Some(<<"c","a">>)}, t \in {Null, Some(<<"c","c">>)},
      pre \in {<<>>, <<SAFARI_NOT_FOUND, FIREFOX_NOT_FOUND>>} }

\* The command lines of the model.  --max-pages and --delay are the strings
\* given on the command line (Null: the option is absent).
CommandCalls ==
  LET NoOptions ==
        [all |-> FALSE, maxPages |-> Null, delay |-> Null, cursor |-> Null,
         listIdValid |-> TRUE, apiKey |-> Null, envApiKey |-> Null,
         envLocalhostApiKey |-> Null]
  IN
  { [name |-> n, opts |-> NoOptions] : n \in {"read", "lists"} }
    \cup { [name |-> "list-timeline", opts |-> [NoOptions EXCEPT !.listIdValid = v]] :
             v \in BOOLEAN }
    \cup { [name |-> n, opts |-> [NoOptions EXCEPT !.all = a, !.maxPages = m,
                                                   !.delay = d, !.cursor = c]] :
             n \in {"replies", "thread"}, a \in BOOLEAN,
             m \in { Null, Some(<<>>), Some(<<"2">>), Some(<<"0">>), Some(<<"-","1">>),
                     Some(<<"a","b","c">>), Some(<<"2","x">>), Some(<<"1",".","5">>) },
             d \in { Null, Some(<<"0">>), Some(<<"-","1","0","0">>), Some(<<"x">>),
                     Some(<<"5","x">>) },
             c \in {Null, Some(<<"c","1">>)} }
    \cup { [name |-> n, opts |-> [NoOptions EXCEPT !.apiKey = k, !.envApiKey = e,
                                                   !.envLocalhostApiKey = l]] :
             n \in {"tweet", "reply"},
             k \in {Null, Some(<<>>), Some(<<"k","1">>), Some(<<" ">>)},
             e \in {Null, Some(<<"k","2">>)}, l \in {Null, Some(<<"k","3">>)} }

Event(kind, text) == [kind |-> kind, text |-> text]

InitCommands ==
  /\ options = [authToken |-> Null, ct0 |-> Null,
                cookieSource |-> [kind |-> "undefined", list |-> <<>>],
                chromeProfile |-> Null, firefoxProfile |-> Null]
  /\ env = [k \in {"AUTH_TOKEN", "TWITTER_AUTH_TOKEN", "CT0", "TWITTER_CT0"} |-> Null]
  /\ pc = "idle"
  /\ cookies = EmptyCookies
  /\ warnings = <<>>
  /\ idx = 1
  /\ returned = Null
  /\ attempts = <<>>
  /\ call = Null
  /\ result = Null
  /\ input = Null
  /\ output = Null
  /\ run = Null
  /\ disk = EmptyDisk
  /\ fsLog = <<>>
  /\ req = Null
  /\ cmd \in { [call |-> c, at |-> "start", events |-> <<>>, exit |-> Null, creds |-> Null] :
                 c \in CommandCalls }
  /\ paging = Null

\* console.error(message); process.exit(code)
ExitWith(events, message, code) ==
  [cmd EXCEPT !.events = Append(events, Event("error", message)),
              !.exit = Some(code), !.at = "exited"]

\* replies and thread: the three option checks; list-timeline: extractListId
CmdValidate ==
  /\ cmd.at = "start"
  /\ cmd.call.name \in {"replies", "thread", "list-timeline"}
  /\ LET o == cmd.call.opts
         maxPages == IF Truthy(o.maxPages) THEN Some(parseInt(o.maxPages[1])) ELSE Null
         pageDelayMs == IF Truthy(o.delay) THEN parseInt(o.delay[1]) ELSE Some(1000)
         usePagination == o.all \/ Truthy(o.cursor)
     IN  cmd' =
           IF cmd.call.name = "list-timeline"
           THEN IF ~o.listIdValid
                THEN ExitWith(cmd.events,
                       "Invalid list ID or URL. Expected numeric ID or https://x.com/i/lists/<id>.", 2)
                ELSE [cmd EXCEPT !.at = "validated"]
           ELSE IF maxPages # Null /\ ~usePagination
           THEN ExitWith(cmd.events, "--max-pages requires --all or --cursor.", 1)
           ELSE IF maxPages # Null /\ (maxPages[1] = Null \/ maxPages[1][1] <= 0)
           THEN ExitWith(cmd.events, "Invalid --max-pages. Expected a positive integer.", 1)
           ELSE IF pageDelayMs = Null \/ pageDelayMs[1] < 0
           THEN ExitWith(cmd.events, "Invalid --delay. Expected a non-negative integer.", 1)
           ELSE [cmd EXCEPT !.at = "validated"]
  /\ UNCHANGED <<req, paging, options, env, pc, cookies, warnings, idx, returned, attempts,
                 call, result, input, output, run, disk, fsLog>>

\* tweet and reply: with an API key the post goes through SweetisticsClient
CmdSweetistics ==
  /\ cmd.at = "start"
  /\ cmd.call.name \in {"tweet", "reply"}
  /\ LET apiKey == resolveSweetisticsConfig(cmd.call.opts)
         made == Append(cmd.events, Event("new", "SweetisticsClient"))
     IN  IF ~Truthy(apiKey) THEN cmd' = [cmd EXCEPT !.at = "validated"]
         ELSE IF Trim(apiKey[1]) = <<>>
         THEN cmd' = ExitWith(made, "Sweetistics error: Sweetistics API key is required", 1)
         ELSE \E outcome \in {"success", "failure", "throws"} :
                LET posted == Append(made, Event("request", "sweetistics"))
                IN  cmd' = CASE outcome = "success" ->
                                  [cmd EXCEPT !.events = posted, !.at = "done"]
                             [] outcome = "failure" ->
                                  ExitWith(posted, "Sweetistics post failed", 1)
                             [] OTHER -> ExitWith(posted, "Sweetistics error", 1)
  /\ UNCHANGED <<req, paging, options, env, pc, cookies, warnings, idx, returned, attempts,
                 call, result, input, output, run, disk, fsLog>>

RECURSIVE Warned(_)
Warned(ws) ==
  IF ws = <<>> THEN <<>> ELSE <<Event("warn", Head(ws))>> \o Warned(Tail(ws))

\* resolve the credentials, print every warning, give up when a token is missing
CmdResolveCredentials ==
  /\ \/ cmd.at = "start" /\ cmd.call.name \in {"read", "lists"}
     \/ cmd.at = "validated"
  /\ \E r \in CredentialResults :
       LET printed == Append(cmd.events, Event("call", "resolveCredentials")) \o Warned(r.warnings)
       IN  cmd' = IF CredentialsMissing(r.cookies)
                  THEN [ExitWith(printed, "Missing required credentials", 1)
                          EXCEPT !.creds = Some(r)]
                  ELSE [cmd EXCEPT !.events = printed, !.creds = Some(r), !.at = "credentials"]
  /\ UNCHANGED <<req, paging, options, env, pc, cookies, warnings, idx, returned, attempts,
                 call, result, input, output, run, disk, fsLog>>

\* new TwitterClient({ cookies, ... }) and the request of the command
CmdRequest ==
  /\ cmd.at = "credentials"
  /\ \E ok \in BOOLEAN :
       LET sent == cmd.events \o <<Event("new", "TwitterClient"), Event("request", "twitter")>>
       IN  cmd' = IF ok THEN [cmd EXCEPT !.events = sent, !.at = "done"]
                  ELSE ExitWith(sent, "Failed", 1)
  /\ UNCHANGED <<req, paging, options, env, pc, cookies, warnings, idx, returned, attempts,
                 call, result, input, output, run, disk, fsLog>>

NextCommands ==
  \/ CmdValidate
  \/ CmdSweetistics
  \/ CmdResolveCredentials
  \/ CmdRequest

SpecCommands == InitCommands /\ [][NextCommands]_vars

----------------------------------------------------------------------------
(* getRepliesPaged and getThreadPaged                                      *)

\* `a.createdAt ? Date.parse(a.createdAt) : 0`
TimeOf(t) == IF t.createdAt # Null THEN t.createdAt[1] ELSE 0

\* Array.prototype.sort with the comparator aTime - bTime (a stable sort)
RECURSIVE SortByCreatedAt(_)
SortByCreatedAt(ts) ==
  IF ts = <<>> THEN <<>>
  ELSE LET rest == SortByCreatedAt(SubSeq(ts, 1, Len(ts) - 1))
           t == ts[Len(ts)]
           k == Cardinality({ i \in 1..Len(rest) : TimeOf(rest[i]) <= TimeOf(t) })
       IN  SubSeq(rest, 1, k) \o <<t>> \o SubSeq(rest, k + 1, Len(rest))

\* a faulty variant of Collect: the seen set is not consulted
RECURSIVE CollectAll(_, _, _)
CollectAll(seen, all, ts) ==
  IF ts = <<>> THEN [seen |-> seen, all |-> all]
  ELSE CollectAll(seen \cup {Head(ts).id}, Append(all, Head(ts)), Tail(ts))

\* `for (const reply of replies) { if (seen.has(reply.id)) continue; ... }`
RECURSIVE Collect(_, _, _)
Collect(seen, all, ts) ==
  IF ts = <<>> THEN [seen |-> seen, all |-> all]
  ELSE IF Head(ts).id \in seen THEN Collect(seen, all, Tail(ts))
  ELSE Collect(seen \cup {Head(ts).id}, Append(all, Head(ts)), Tail(ts))

\* a faulty variant of ReachedMaxPages: one page too many
ReachedMaxPagesLate(maxPages, pagesFetched) ==
  maxPages # Null /\ maxPages[1] # 0 /\ pagesFetched > maxPages[1]

\* `if (maxPages && pagesFetched >= maxPages)`
ReachedMaxPages(maxPages, pagesFetched) ==
  maxPages # Null /\ maxPages[1] # 0 /\ pagesFetched >= maxPages[1]

\* a faulty variant of FailureResult: the failure is returned whatever was collected
FailureResultDiscards(all, cursor, error) ==
  [success |-> FALSE, tweets |-> <<>>, nextCursor |-> Null, error |-> Some(error)]

\* the return of a call whose fetchTweetDetail failed
FailureResult(all, cursor, error) ==
  IF Len(all) > 0
  THEN [success |-> TRUE, tweets |-> all, nextCursor |-> cursor, error |-> Some(error)]
  ELSE [success |-> FALSE, tweets |-> <<>>, nextCursor |-> Null, error |-> Some(error)]

\* The tweets a response may hold: tweet "a" is the one asked for.  raw
\* stands for the payload of the occurrence (which response, which position).
ServedTweets(fn) ==
  LET Tweet(i, c, r) ==
        [id |-> i, conversationId |-> c, inReplyToStatusId |-> r,
         createdAt |-> (CASE i = "a" -> Some(2) [] i = "b" -> Some(1) [] OTHER -> Null),
         raw |-> <<0, 0>>]
  IN
  IF fn = "getRepliesPaged"
  THEN { Tweet("a", "a", Null), Tweet("b", "a", Some("a")), Tweet("c", "a", Some("a")),
         Tweet("c", "a", Null) }
  ELSE { Tweet("a", "a", Null), Tweet("a", "r", Null), Tweet("b", "a", Null),
         Tweet("b", "r", Null), Tweet("c", "a", Null) }

InitPaged ==
  /\ options = [authToken |-> Null, ct0 |-> Null,
                cookieSource |-> [kind |-> "undefined", list |-> <<>>],
                chromeProfile |-> Null, firefoxProfile |-> Null]
  /\ env = [k \in {"AUTH_TOKEN", "TWITTER_AUTH_TOKEN", "CT0", "TWITTER_CT0"} |-> Null]
  /\ pc = "idle"
  /\ cookies = EmptyCookies
  /\ warnings = <<>>
  /\ idx = 1
  /\ returned = Null
  /\ attempts = <<>>
  /\ call = Null
  /\ result = Null
  /\ input = Null
  /\ output = Null
  /\ run = Null
  /\ disk = EmptyDisk
  /\ fsLog = <<>>
  /\ req = Null
  /\ cmd = Null
  /\ paging \in { [fn |-> f, tweetId |-> "a", maxPages |-> m, cursor |-> c, nextCursor |-> Null,
                 pagesFetched |-> 0, seen |-> {}, all |-> <<>>, rootId |-> Null,
                 requests |-> <<>>, served |-> <<>>, result |-> Null] :
                  f \in {"getRepliesPaged", "getThreadPaged"},
                  m \in {Null, Some(1), Some(2)},
                  c \in {Null, Some("c1")} }

\* One turn of the loop whose fetchTweetDetail succeeds, with the return
\* that follows when the loop is left.  requests and served are the history
\* of the call: every request made and every matching tweet received.
FetchPage ==
  /\ paging # Null /\ paging.result = Null /\ Len(paging.requests) < MaxFetches
  /\ \E ts \in SeqsUpTo(ServedTweets(paging.fn), 2), pageCursor \in {Null, Some("c1"), Some("c2")} :
       LET n == Len(paging.requests) + 1
           tweets == [i \in 1..Len(ts) |-> [ts[i] EXCEPT !.raw = <<n, i>>]]
           pagesFetched == paging.pagesFetched + 1
           target == { i \in 1..Len(tweets) : tweets[i].id = paging.tweetId }
           rootId == IF paging.fn = "getRepliesPaged" \/ paging.rootId # Null THEN paging.rootId
                     ELSE IF target # {}
                          THEN Some(tweets[CHOOSE i \in target : \A j \in target : i <= j].conversationId)
                          ELSE Some(paging.tweetId)
           Matches(t) == IF paging.fn = "getRepliesPaged"
                         THEN t.inReplyToStatusId = Some(paging.tweetId)
                         ELSE t.conversationId = rootId[1]
           replies == SelectSeq(tweets, Matches)
           got == Collect(paging.seen, paging.all, replies)
           stop == pageCursor = Null \/ pageCursor = paging.cursor \/ Len(replies) = 0
           full == ReachedMaxPages(paging.maxPages, pagesFetched)
           nextCursor == IF stop THEN Null ELSE pageCursor
           after == [paging EXCEPT !.pagesFetched = pagesFetched, !.rootId = rootId,
                                 !.seen = got.seen, !.all = got.all,
                                 !.nextCursor = nextCursor,
                                 !.requests = Append(@, [cursor |-> paging.cursor, ok |-> TRUE,
                                                         pageCursor |-> pageCursor,
                                                         matched |-> Len(replies)]),
                                 !.served = @ \o replies]
       IN  paging' =
             IF stop \/ full
             THEN [after EXCEPT
                     !.all = IF paging.fn = "getThreadPaged" THEN SortByCreatedAt(got.all) ELSE got.all,
                     !.result = Some([success |-> TRUE,
                                      tweets |-> IF paging.fn = "getThreadPaged"
                                                 THEN SortByCreatedAt(got.all) ELSE got.all,
                                      nextCursor |-> nextCursor, error |-> Null])]
             ELSE [after EXCEPT !.cursor = pageCursor]
  /\ UNCHANGED <<req, cmd, options, env, pc, cookies, warnings, idx, returned, attempts,
                 call, result, input, output, run, disk, fsLog>>

\* The turn of the loop whose fetchTweetDetail fails
FetchFails ==
  /\ paging # Null /\ paging.result = Null /\ Len(paging.requests) < MaxFetches
  /\ paging' = [paging EXCEPT
                !.requests = Append(@, [cursor |-> paging.cursor, ok |-> FALSE,
                                        pageCursor |-> Null, matched |-> 0]),
                !.result = Some(FailureResult(paging.all, paging.cursor, "HTTP 500"))]
  /\ UNCHANGED <<req, cmd, options, env, pc, cookies, warnings, idx, returned, attempts,
                 call, result, input, output, run, disk, fsLog>>

NextPaged ==
  \/ FetchPage
  \/ FetchFails

SpecPaged == InitPaged /\ [][NextPaged]_vars

----------------------------------------------------------------------------
(* getRepliesPaged resumed from its nextCursor                             *)

\* a faulty variant of CursorAtLimit: the cursor of the request just made is
\* handed back
CursorAtLimitStale(cursor, pageCursor) == cursor

\* `nextCursor = pageCursor` when maxPages ends the call (line 411)
CursorAtLimit(cursor, pageCursor) == Some(pageCursor)

\* Two lanes against one server that maps each cursor to a fixed page: whole
\* is one call without maxPages, part the calls with maxPages = k, each
\* resumed from the nextCursor of the one before.  A lane holds the locals of
\* its running call and its history: the cursors requested and the ids
\* collected over all its calls.
InitResume ==
  /\ options = [authToken |-> Null, ct0 |-> Null,
                cookieSource |-> [kind |-> "undefined", list |-> <<>>],
                chromeProfile |-> Null, firefoxProfile |-> Null]
  /\ env = [k \in {"AUTH_TOKEN", "TWITTER_AUTH_TOKEN", "CT0", "TWITTER_CT0"} |-> Null]
  /\ pc = "idle"
  /\ cookies = EmptyCookies
  /\ warnings = <<>>
  /\ idx = 1
  /\ returned = Null
  /\ attempts = <<>>
  /\ call = Null
  /\ result = Null
  /\ input = Null
  /\ output = Null
  /\ run = Null
  /\ disk = EmptyDisk
  /\ fsLog = <<>>
  /\ req = Null
  /\ cmd = Null
  /\ LET Reply(i) == [id |-> i, inReplyToStatusId |-> Some("a")]
         Pages == { [tweets |-> ts, cursor |-> c] :
                      ts \in { <<>>, <<Reply("b")>>, <<Reply("b"), Reply("c")>>,
                               <<[id |-> "d", inReplyToStatusId |-> Null]>> },
                      c \in {Null, Some("c1"), Some("c2")} }
         lane == [cursor |-> Null, nextCursor |-> Null, pagesFetched |-> 0, seen |-> {},
                  all |-> <<>>, done |-> FALSE, requests |-> <<>>, ids |-> {}, calls |-> 1]
     IN paging \in { [fn |-> "resume", tweetId |-> "a", maxPages |-> Some(k), server |-> sv,
                      whole |-> lane, part |-> lane] :
                       k \in 1..2, sv \in [{Null, Some("c1"), Some("c2")} -> Pages] }

\* One turn of the loop of getRepliesPaged (lines 376-417) in either lane,
\* with the return that follows when the loop is left.
ResumeFetchPage ==
  /\ paging # Null
  /\ \E w \in {"whole", "part"} :
       LET c == paging[w]
           maxPages == IF w = "whole" THEN Null ELSE paging.maxPages
           page == paging.server[c.cursor]
           pagesFetched == c.pagesFetched + 1
           replies == SelectSeq(page.tweets, LAMBDA t : t.inReplyToStatusId = Some(paging.tweetId))
           got == Collect(c.seen, c.all, replies)
           pageCursor == page.cursor
           stop == pageCursor = Null \/ pageCursor = c.cursor \/ Len(replies) = 0
           full == ReachedMaxPages(maxPages, pagesFetched)
           after == [c EXCEPT !.pagesFetched = pagesFetched, !.seen = got.seen, !.all = got.all,
                              !.requests = Append(@, c.cursor),
                              !.ids = @ \cup got.seen]
       IN /\ ~c.done /\ Len(c.requests) < MaxFetches
          /\ paging' = [paging EXCEPT ![w] =
               IF stop THEN [after EXCEPT !.nextCursor = Null, !.done = TRUE]
               ELSE IF full
               THEN [after EXCEPT !.nextCursor = CursorAtLimit(c.cursor, pageCursor[1]), !.done = TRUE]
               ELSE [after EXCEPT !.cursor = pageCursor, !.nextCursor = pageCursor]]
  /\ UNCHANGED <<req, cmd, options, env, pc, cookies, warnings, idx, returned, attempts,
                 call, result, input, output, run, disk, fsLog>>

\* The caller passes the returned nextCursor as options.cursor of a new call
\* (lines 369-374).
ResumeCallAgain ==
  /\ paging # Null /\ paging.part.done /\ paging.part.nextCursor # Null
  /\ paging' = [paging EXCEPT !.part =
                  [@ EXCEPT !.cursor = paging.part.nextCursor, !.nextCursor = Null,
                            !.pagesFetched = 0, !.seen = {}, !.all = <<>>, !.done = FALSE,
                            !.calls = @ + 1]]
  /\ UNCHANGED <<req, cmd, options, env, pc, cookies, warnings, idx, returned, attempts,
                 call, result, input, output, run, disk, fsLog>>

NextResume ==
  \/ ResumeFetchPage
  \/ ResumeCallAgain

SpecResume == InitResume /\ [][NextResume]_vars

----------------------------------------------------------------------------
(* GraphQL calls that refresh the query ids: fetchTweetDetail,             *)
(* getFollowing, getFollowers                                              *)

\* The number of query ids getTweetDetailQueryIds / getFollowingQueryIds /
\* getFollowersQueryIds hand to a round.
MaxQueryIds == 2

\* a faulty variant of AfterAttempt: a failed first attempt is followed by a
\* refresh whether or not a 404 was seen
AfterAttemptAlwaysRefresh(r, a) ==
  IF a.success
  THEN [r EXCEPT !.at = "done", !.result = Some([success |-> TRUE, error |-> Null, via |-> "graphql"])]
  ELSE IF r.attempt = 1 THEN [r EXCEPT !.at = "refresh", !.first = Some(a)]
  ELSE IF r.fn = "fetchTweetDetail"
  THEN [r EXCEPT !.at = "done", !.result = Some([success |-> FALSE, error |-> a.error, via |-> "graphql"])]
  ELSE [r EXCEPT !.at = "rest", !.second = Some(a)]

\* a faulty variant of AfterAttempt: after a first attempt that saw a 404 the
\* REST endpoint is asked at once
AfterAttemptRestFirst(r, a) ==
  IF a.success
  THEN [r EXCEPT !.at = "done", !.result = Some([success |-> TRUE, error |-> Null, via |-> "graphql"])]
  ELSE IF r.fn = "fetchTweetDetail"
  THEN IF r.attempt = 1 /\ r.had404 THEN [r EXCEPT !.at = "refresh", !.first = Some(a)]
       ELSE [r EXCEPT !.at = "done", !.result = Some([success |-> FALSE, error |-> a.error, via |-> "graphql"])]
  ELSE IF a.had404 THEN [r EXCEPT !.at = "rest", !.first = Some(a), !.second = Some(a)]
  ELSE [r EXCEPT !.at = "done", !.result = Some([success |-> FALSE, error |-> a.error, via |-> "graphql"])]

\* What follows `await tryOnce()`: a is what the attempt returned.
\* fetchTweetDetail (lines 257-267) tests the had404 shared by both rounds,
\* getFollowing / getFollowers (lines 365-388, 471-494) the had404 the attempt
\* returned.
AfterAttempt(r, a) ==
  IF a.success
  THEN [r EXCEPT !.at = "done", !.result = Some([success |-> TRUE, error |-> Null, via |-> "graphql"])]
  ELSE IF r.fn = "fetchTweetDetail"
  THEN IF r.attempt = 1 /\ r.had404 THEN [r EXCEPT !.at = "refresh", !.first = Some(a)]
       ELSE [r EXCEPT !.at = "done", !.result = Some([success |-> FALSE, error |-> a.error, via |-> "graphql"])]
  ELSE IF r.attempt = 1
  THEN IF a.had404 THEN [r EXCEPT !.at = "refresh", !.first = Some(a)]
       ELSE [r EXCEPT !.at = "done", !.result = Some([success |-> FALSE, error |-> a.error, via |-> "graphql"])]
  ELSE [r EXCEPT !.at = "rest", !.second = Some(a)]

InitRequests ==
  /\ options = [authToken |-> Null, ct0 |-> Null,
                cookieSource |-> [kind |-> "undefined", list |-> <<>>],
                chromeProfile |-> Null, firefoxProfile |-> Null]
  /\ env = [k \in {"AUTH_TOKEN", "TWITTER_AUTH_TOKEN", "CT0", "TWITTER_CT0"} |-> Null]
  /\ pc = "idle"
  /\ cookies = EmptyCookies
  /\ warnings = <<>>
  /\ idx = 1
  /\ returned = Null
  /\ attempts = <<>>
  /\ call = Null
  /\ result = Null
  /\ input = Null
  /\ output = Null
  /\ run = Null
  /\ disk = EmptyDisk
  /\ fsLog = <<>>
  /\ cmd = Null
  /\ paging = Null
  /\ \E fn \in {"fetchTweetDetail", "getFollowing", "getFollowers"} :
       req = Some([fn |-> fn, at |-> "graphql", attempt |-> 1, pos |-> 1, method |-> "GET",
                   had404 |-> FALSE, lastError |-> Null, first |-> Null, second |-> Null,
                   restPos |-> 1, log |-> <<>>, result |-> Null])

\* One awaited fetchWithTimeout of fetchTweetDetail's tryOnce and what runs
\* until the next await (lines 228-254, 257-270).  The n-th response of a call
\* carries the text n.
TweetDetailResponse ==
  /\ req # Null /\ req[1].fn = "fetchTweetDetail" /\ req[1].at = "graphql"
  /\ \E outcome \in {"ok", "errors", "notOk", "404", "throws"} :
       LET r == req[1]
           n == Len(r.log) + 1
           logged == [r EXCEPT !.log = Append(@, [kind |-> "request", attempt |-> r.attempt,
                                                  pos |-> r.pos, method |-> r.method,
                                                  outcome |-> outcome])]
       IN req' = Some(
            CASE outcome = "throws" ->
                   [logged EXCEPT !.at = "done",
                                  !.result = Some([success |-> FALSE, error |-> Some(<<"thrown", n>>),
                                                   via |-> "catch"])]
              [] outcome = "ok" ->
                   AfterAttempt(logged, [success |-> TRUE, error |-> Null, had404 |-> r.had404])
              [] outcome = "errors" ->
                   AfterAttempt(logged, [success |-> FALSE, error |-> Some(<<"errors", n>>),
                                         had404 |-> r.had404])
              [] outcome = "notOk" ->
                   AfterAttempt(logged, [success |-> FALSE, error |-> Some(<<"HTTP 500", n>>),
                                         had404 |-> r.had404])
              [] OTHER ->
                   IF r.method = "GET"
                   THEN [logged EXCEPT !.had404 = TRUE, !.method = "POST"]
                   ELSE IF r.pos < MaxQueryIds
                   THEN [logged EXCEPT !.lastError = Some(<<"HTTP 404">>),
                                       !.pos = r.pos + 1, !.method = "GET"]
                   ELSE AfterAttempt([logged EXCEPT !.lastError = Some(<<"HTTP 404">>)],
                                     [success |-> FALSE, error |-> Some(<<"HTTP 404">>),
                                      had404 |-> TRUE]))
  /\ UNCHANGED <<cmd, paging, options, env, pc, cookies, warnings, idx, returned, attempts,
                 call, result, input, output, run, disk, fsLog>>

\* One awaited fetchWithTimeout of tryOnce in getFollowing / getFollowers and
\* what runs until the next await (lines 311-362 and 365-388; 417-468 and
\* 471-494).
UsersResponse ==
  /\ req # Null /\ req[1].fn \in {"getFollowing", "getFollowers"} /\ req[1].at = "graphql"
  /\ \E outcome \in {"ok", "errors", "notOk", "404", "throws"} :
       LET r == req[1]
           n == Len(r.log) + 1
           logged == [r EXCEPT !.log = Append(@, [kind |-> "request", attempt |-> r.attempt,
                                                  pos |-> r.pos, method |-> r.method,
                                                  outcome |-> outcome])]
           \* `continue`, or the end of the for loop
           Continue(had404, lastError) ==
             IF r.pos < MaxQueryIds
             THEN [logged EXCEPT !.had404 = had404, !.lastError = lastError, !.pos = r.pos + 1]
             ELSE AfterAttempt([logged EXCEPT !.had404 = had404, !.lastError = lastError],
                               [success |-> FALSE, error |-> lastError, had404 |-> had404])
       IN req' = Some(
            CASE outcome = "404" -> Continue(TRUE, Some(<<"HTTP 404">>))
              [] outcome = "throws" -> Continue(r.had404, Some(<<"thrown", n>>))
              [] outcome = "ok" ->
                   AfterAttempt(logged, [success |-> TRUE, error |-> Null, had404 |-> r.had404])
              [] outcome = "errors" ->
                   AfterAttempt(logged, [success |-> FALSE, error |-> Some(<<"errors", n>>),
                                         had404 |-> r.had404])
              [] OTHER ->
                   AfterAttempt(logged, [success |-> FALSE, error |-> Some(<<"HTTP 500", n>>),
                                         had404 |-> r.had404]))
  /\ UNCHANGED <<cmd, paging, options, env, pc, cookies, warnings, idx, returned, attempts,
                 call, result, input, output, run, disk, fsLog>>

\* `await this.refreshQueryIds()` and the start of the second tryOnce.  In
\* getFollowing / getFollowers lastError and had404 are locals of tryOnce.
RefreshQueryIds ==
  /\ req # Null /\ req[1].at = "refresh"
  /\ req' = Some([req[1] EXCEPT
                    !.log = Append(@, [kind |-> "refresh", attempt |-> 0, pos |-> 0,
                                       method |-> "", outcome |-> ""]),
                    !.at = "graphql", !.attempt = 2, !.pos = 1, !.method = "GET",
                    !.had404 = IF req[1].fn = "fetchTweetDetail" THEN @ ELSE FALSE,
                    !.lastError = IF req[1].fn = "fetchTweetDetail" THEN @ ELSE Null])
  /\ UNCHANGED <<cmd, paging, options, env, pc, cookies, warnings, idx, returned, attempts,
                 call, result, input, output, run, disk, fsLog>>

\* One awaited fetchWithTimeout of getFollowingViaRest / getFollowersViaRest
\* (two urls) and the return of the caller (lines 380-385, 486-491).
RestResponse ==
  /\ req # Null /\ req[1].at = "rest"
  /\ \E outcome \in {"ok", "notOk", "throws"} :
       LET r == req[1]
           logged == [r EXCEPT !.log = Append(@, [kind |-> "rest", attempt |-> 0,
                                                  pos |-> r.restPos, method |-> "GET",
                                                  outcome |-> outcome])]
       IN req' = Some(
            IF outcome = "ok"
            THEN [logged EXCEPT !.at = "done",
                                !.result = Some([success |-> TRUE, error |-> Null, via |-> "rest"])]
            ELSE IF r.restPos < 2
            THEN [logged EXCEPT !.restPos = 2]
            ELSE [logged EXCEPT !.at = "done",
                                !.result = Some([success |-> FALSE, error |-> r.second[1].error,
                                                 via |-> "graphql"])])
  /\ UNCHANGED <<cmd, paging, options, env, pc, cookies, warnings, idx, returned, attempts,
                 call, result, input, output, run, disk, fsLog>>

NextRequests ==
  \/ TweetDetailResponse
  \/ UsersResponse
  \/ RefreshQueryIds
  \/ RestResponse

SpecRequests == InitRequests /\ [][NextRequests]_vars

----------------------------------------------------------------------------
(* Properties of resolveCredentials and of the readers                     *)

Last(q) == q[Len(q)]

\* the list the claims expect to be walked, stated from the option itself
ExpectedSources ==
  IF options.cookieSource.kind = "undefined"
  THEN <<"safari", "chrome", "firefox">>
  ELSE options.cookieSource.list

\* the call returned from inside the cascade, with the last reader's cookies
FromBrowser == pc = "done" /\ attempts # <<>> /\ Last(attempts).kind = "complete"

\* the first environment variable of the list holding a non-blank value
EnvHolds(keys) == ScanEnv(keys, env)

CliGiven(tok) == Truthy(options[tok])

EnvDiffers(tok) ==
  LET found == EnvHolds(IF tok = "authToken" THEN envAuthKeys ELSE envCt0Keys)
  IN  found # Null /\ Some(found[1].value) # options[tok]

\* the tokens steps 1-2 give, stated from the options and the environment
ExpectedToken(tok, keys) ==
  IF CliGiven(tok) THEN options[tok]
  ELSE IF EnvHolds(keys) # Null THEN Some(EnvHolds(keys)[1].value)
  ELSE Null

\* the call returned after the cascade was walked to its end
Exhausted ==
  /\ pc = "done" /\ ~FromBrowser
  /\ ~(Truthy(ExpectedToken("authToken", envAuthKeys))
        /\ Truthy(ExpectedToken("ct0", envCt0Keys)))

OutcomesOf(source) ==
  CASE source = "safari" -> SafariOutcomes
    [] source = "chrome" -> ChromeOutcomes[options.chromeProfile]
    [] OTHER -> FirefoxOutcomes[options.firefoxProfile]

\* Every token a store of the model holds starts with its browser's letter.
BrowserTag(source) ==
  CASE source = "safari" -> "s" [] source = "chrome" -> "g" [] OTHER -> "f"

TokenOf(source, token) == token # Null /\ token[1] # <<>> /\ Head(token[1]) = BrowserTag(source)

\* C1: no call of resolveCredentials rejects: whatever the options, the
\* environment and the outcomes of the filesystem, sqlite3 and keychain steps,
\* the promise is never rejected.
C1_NeverRejects == pc # "rejected"

\* C2: a source with only one of the two tokens does not end the cascade (the
\* call returns after such a source only when the list is used up), and when
\* a later source has both, the returned credentials are one of that
\* source's own complete results, every token being that source's.
C2_PartialSourceSkipped ==
  /\ (pc = "done" /\ attempts # <<>> /\ Last(attempts).kind # "complete")
       => Len(attempts) = Len(ExpectedSources)
  /\ (pc = "cascade" /\ attempts # <<>> /\ Last(attempts).kind = "partial")
       => idx = Len(attempts) + 1 /\ returned = Null
  /\ FromBrowser =>
       /\ \A i \in 1..(Len(attempts) - 1) : attempts[i].kind \in {"none", "partial"}
       /\ returned[1].cookies \in
            { r.cookies : r \in { o \in OutcomesOf(Last(attempts).source) :
                                    ~o.threw /\ Complete(o.cookies) } }
       /\ TokenOf(Last(attempts).source, returned[1].cookies.authToken)
       /\ TokenOf(Last(attempts).source, returned[1].cookies.ct0)

C2_Witness ==
  /\ FromBrowser
  /\ Len(attempts) = 2
  /\ attempts[1].source = "safari" /\ attempts[1].kind = "partial"
  /\ attempts[2].source = "chrome"
  /\ returned[1].cookies.source = Some("Chrome default profile")

C4_BrowserReplacesPartial ==
  (FromBrowser /\ (Truthy(cookies.authToken) \/ Truthy(cookies.ct0))) =>
    /\ returned[1].cookies \in { r.cookies : r \in OutcomesOf(Last(attempts).source) }
    /\ TokenOf(Last(attempts).source, returned[1].cookies.authToken)
    /\ TokenOf(Last(attempts).source, returned[1].cookies.ct0)
    /\ returned[1].cookies.authToken # cookies.authToken
    /\ returned[1].cookies.ct0 # cookies.ct0
    /\ returned[1].cookies.source # cookies.source
    /\ returned[1].cookies.cookieHeader # Null
    /\ returned[1].cookies.cookieHeader # WithHeader(cookies).cookieHeader

C4_Witness ==
  /\ FromBrowser
  /\ cookies.authToken = Some(<<"c","a">>) /\ cookies.ct0 = Null
  /\ Last(attempts).source = "firefox"
  /\ returned[1].cookies.authToken = Some(<<"f","a">>)
  /\ returned[1].cookies.ct0 = Some(<<"f","c">>)

\* C5: once steps 1-2 have filled both tokens, the call returns at once: no
\* browser reader is ever invoked, whatever cookieSource says, and the
\* returned warnings are empty.
C5_CompleteSkipsBrowsers ==
  (pc \notin {"cli", "env"} /\ Complete(cookies)) =>
    /\ pc \in {"check", "done"}
    /\ attempts = <<>>
    /\ pc = "done" =>
         /\ returned # Null
         /\ returned[1].warnings = <<>>
         /\ returned[1].cookies.authToken = cookies.authToken
         /\ returned[1].cookies.ct0 = cookies.ct0

C5_Witness ==
  /\ pc = "done"
  /\ Complete(cookies)
  /\ options.cookieSource = [kind |-> "array", list |-> <<"chrome", "safari">>]
  /\ attempts = <<>>
  /\ returned[1].warnings = <<>>

\* C6: the readers invoked are those named in cookieSource, in the order
\* given, one per position (safari, chrome, firefox when cookieSource is not
\* given); no reader outside the list is ever invoked.
C6_OnlyNamedSourcesInOrder ==
  /\ Len(attempts) <= Len(ExpectedSources)
  /\ \A i \in 1..Len(attempts) : attempts[i].source = ExpectedSources[i]
  /\ (pc = "cascade" /\ idx <= Len(ExpectedSources)) => Len(attempts) = idx - 1

C6_Witness ==
  /\ pc = "done"
  /\ options.cookieSource = [kind |-> "array", list |-> <<"firefox", "safari">>]
  /\ Len(attempts) = 2
  /\ attempts[1].source = "firefox" /\ attempts[1].kind = "partial"
  /\ attempts[2].source = "safari" /\ attempts[2].kind = "complete"

\* C7: in every result of resolveCredentials the cookie header is set exactly
\* when both tokens are.
C7_HeaderIffBothTokens ==
  returned # Null =>
    (returned[1].cookies.cookieHeader # Null
       <=> (returned[1].cookies.authToken # Null /\ returned[1].cookies.ct0 # Null))

C7_Witness ==
  /\ returned # Null
  /\ attempts = <<>>
  /\ returned[1].cookies.authToken = Some(<<"e","a">>)
  /\ returned[1].cookies.ct0 = Some(<<"c","c">>)
  /\ returned[1].cookies.cookieHeader =
       Some(<<"a","u","t","h","_","t","o","k","e","n","=","e","a",";"," ",
              "c","t","0","=","c","c">>)

\* C8: in every result of a browser reader the cookie header is set exactly
\* when both tokens are.
C8_ReaderHeaderIffBothTokens ==
  result # Null =>
    (result[1].cookies.cookieHeader # Null
       <=> (result[1].cookies.authToken # Null /\ result[1].cookies.ct0 # Null))

\* the warnings the invoked readers produced, in order of attempt
RECURSIVE Produced(_)
Produced(as) ==
  IF as = <<>> THEN <<>> ELSE Head(as).warnings \o Produced(Tail(as))

\* C9: the warnings of the result hold, in order of attempt, every warning of
\* every reader invoked; only the "Missing ..." warnings may follow them.
C9_WarningsKept ==
  /\ pc \in {"cascade", "rejected"} => warnings = Produced(attempts)
  /\ returned # Null =>
       /\ Len(returned[1].warnings) >= Len(Produced(attempts))
       /\ SubSeq(returned[1].warnings, 1, Len(Produced(attempts))) = Produced(attempts)
       /\ \A i \in (Len(Produced(attempts)) + 1)..Len(returned[1].warnings) :
            returned[1].warnings[i] \in {MISSING_AUTH_TOKEN, MISSING_CT0}

C9_Witness ==
  /\ FromBrowser
  /\ Len(attempts) = 3
  /\ attempts[1].warnings = <<SAFARI_NOT_FOUND>>
  /\ attempts[2].warnings = <<"Failed to read Chrome cookies: Command failed: sqlite3",
                              CHROME_NO_COOKIES>>
  /\ returned[1].warnings = attempts[1].warnings \o attempts[2].warnings

\* C10: when the cascade ends without a complete source, the returned tokens
\* are exactly those of the CLI-argument and environment steps (null where
\* none was set), no token of a partial browser source is in the result, and
\* the header is composed only if both tokens are present.
C10_ExhaustedKeepsCliEnv ==
  Exhausted =>
    /\ returned[1].cookies.authToken = ExpectedToken("authToken", envAuthKeys)
    /\ returned[1].cookies.ct0 = ExpectedToken("ct0", envCt0Keys)
    /\ \A s \in SourceNames :
         /\ ~TokenOf(s, returned[1].cookies.authToken)
         /\ ~TokenOf(s, returned[1].cookies.ct0)
    /\ returned[1].cookies.cookieHeader # Null => Complete(returned[1].cookies)

C10_Witness ==
  /\ Exhausted
  /\ Len(attempts) = 3
  /\ attempts[1].kind = "partial"
  /\ attempts[3].kind = "partial"
  /\ returned[1].cookies.authToken = Null
  /\ returned[1].cookies.ct0 = Some(<<"t","c">>)
  /\ returned[1].cookies.source = Some("env TWITTER_CT0")

\* the "Missing ..." warnings of a list
MissingIn(ws) == SelectSeq(ws, LAMBDA w : w \in {MISSING_AUTH_TOKEN, MISSING_CT0})

\* C11: after an exhausted cascade the warnings are those of the attempts
\* followed by exactly one "Missing ..." warning per token the result lacks
\* (auth_token before ct0), and a result with both tokens has no such warning.
C11_MissingWarningPerToken ==
  /\ Exhausted =>
       returned[1].warnings =
         Produced(attempts)
           \o (IF returned[1].cookies.authToken = Null THEN <<MISSING_AUTH_TOKEN>> ELSE <<>>)
           \o (IF returned[1].cookies.ct0 = Null THEN <<MISSING_CT0>> ELSE <<>>)
  /\ (returned # Null /\ returned[1].cookies.authToken # Null
        /\ returned[1].cookies.ct0 # Null)
       => MissingIn(returned[1].warnings) = <<>>

C11_Witness ==
  /\ Exhausted
  /\ Len(attempts) = 3
  /\ returned[1].cookies.authToken = Null
  /\ returned[1].cookies.ct0 = Null
  /\ returned[1].warnings =
       <<SAFARI_NOT_FOUND, "Chrome cookies database not found at: ~/Library/Application Support/Google/Chrome/Default/Cookies",
         FIREFOX_NOT_FOUND, MISSING_AUTH_TOKEN, MISSING_CT0>>

IsBlank(v) == v = Null \/ \A i \in 1..Len(v[1]) : IsSpace(v[1][i])

\* the environment with every blank variable unset
Unblanked(e) == [k \in DOMAIN e |-> IF IsBlank(e[k]) THEN Null ELSE e[k]]

NoSpaceAtEnds(o) == o # Null => (~IsSpace(Head(o[1])) /\ ~IsSpace(Last(o[1])))

\* C12: in the environment step a blank variable counts as an absent one: the
\* step gives what it gives with the blank variables unset, a token whose
\* variables are all blank (and that has no CLI value) is not filled and does
\* not stamp the source, the exhausted result then has it null with its
\* "Missing ..." warning, and a value taken from the environment is trimmed.
C12_BlankEnvIsAbsent ==
  /\ pc = "check" =>
       /\ cookies = EnvironmentVariables(CliArguments(EmptyCookies, options), Unblanked(env))
       /\ \A tok \in {"authToken", "ct0"} :
            LET keys == IF tok = "authToken" THEN envAuthKeys ELSE envCt0Keys
            IN  /\ (~CliGiven(tok) /\ \A i \in 1..Len(keys) : IsBlank(env[keys[i]]))
                     => cookies[tok] = Null
                /\ ~CliGiven(tok) => NoSpaceAtEnds(cookies[tok])
       /\ (~CliGiven("authToken") /\ ~CliGiven("ct0")
             /\ \A k \in DOMAIN env : IsBlank(env[k]))
            => cookies.source = Null
  /\ Exhausted =>
       /\ (~CliGiven("authToken") /\ \A i \in 1..Len(envAuthKeys) : IsBlank(env[envAuthKeys[i]]))
            => (returned[1].cookies.authToken = Null
                  /\ MISSING_AUTH_TOKEN \in { returned[1].warnings[i] : i \in 1..Len(returned[1].warnings) })
       /\ (~CliGiven("ct0") /\ \A i \in 1..Len(envCt0Keys) : IsBlank(env[envCt0Keys[i]]))
            => (returned[1].cookies.ct0 = Null
                  /\ MISSING_CT0 \in { returned[1].warnings[i] : i \in 1..Len(returned[1].warnings) })

C12_Witness ==
  /\ Exhausted
  /\ options.authToken = Null /\ options.ct0 = Null
  /\ env["AUTH_TOKEN"] = Some(<<" ">>) /\ env["TWITTER_AUTH_TOKEN"] = Null
  /\ env["CT0"] = Some(<<" ","e","c"," ">>)
  /\ returned[1].cookies.authToken = Null
  /\ returned[1].cookies.ct0 = Some(<<"e","c">>)
  /\ returned[1].cookies.source = Some("env CT0")
  /\ Last(returned[1].warnings) = MISSING_AUTH_TOKEN

\* the value the scan of a primary variable and its alias must give
FirstNonBlank(primary, alias) ==
  IF ~IsBlank(env[primary]) THEN Some(Trim(env[primary][1]))
  ELSE IF ~IsBlank(env[alias]) THEN Some(Trim(env[alias][1]))
  ELSE Null

\* C13: a token without CLI value is taken from AUTH_TOKEN before
\* TWITTER_AUTH_TOKEN (CT0 before TWITTER_CT0): the primary wins when both
\* are set, the alias is used only when the primary is absent or blank.
C13_PrimaryBeforeAlias ==
  pc = "check" =>
    /\ ~CliGiven("authToken")
         => cookies.authToken = FirstNonBlank("AUTH_TOKEN", "TWITTER_AUTH_TOKEN")
    /\ ~CliGiven("ct0") => cookies.ct0 = FirstNonBlank("CT0", "TWITTER_CT0")

C13_Witness ==
  /\ pc = "check"
  /\ options.authToken = Null /\ options.ct0 = Null
  /\ env["AUTH_TOKEN"] = Some(<<" ","e","a"," ">>)
  /\ env["TWITTER_AUTH_TOKEN"] = Some(<<"t","a">>)
  /\ env["CT0"] = Some(<<" ">>) /\ env["TWITTER_CT0"] = Some(<<"t","c">>)
  /\ cookies.authToken = Some(<<"e","a">>)
  /\ cookies.ct0 = Some(<<"t","c">>)
  /\ cookies.source = Some("env AUTH_TOKEN")

\* the supplier of the first field populated, in the order CLI authToken,
\* CLI ct0, env authToken, env ct0
FirstPopulated ==
  IF CliGiven("authToken") \/ CliGiven("ct0") THEN Some(CLI_ARGUMENT)
  ELSE IF EnvHolds(envAuthKeys) # Null THEN Some("env " \o EnvHolds(envAuthKeys)[1].key)
  ELSE IF EnvHolds(envCt0Keys) # Null THEN Some("env " \o EnvHolds(envCt0Keys)[1].key)
  ELSE Null

\* C14: after the CLI and environment steps the source names the supplier of
\* the first field populated, and a field populated later never changes it.
C14_SourceOfFirstField ==
  /\ pc = "check" => cookies.source = FirstPopulated
  /\ (pc = "done" /\ ~FromBrowser) => returned[1].cookies.source = FirstPopulated

Parsed == input # Null /\ input[1].fn = "parseSafariCookies" /\ output # Null

\* the records of the container that are cookies of an allow-listed domain,
\* with a name and a value that is not blank
AllowListed(records) ==
  SelectSeq(records, LAMBDA r : Truthy(r.name) /\ ~IsBlank(r.value)
                                  /\ matchesSafariDomain(r.domain))

\* C17: from a well-formed container the Safari parser returns exactly the N
\* cookies of allow-listed domains: as many entries as there are such
\* cookies, each the name and value of one of them, none of another domain.
C17_ExactlyAllowListed ==
  Parsed =>
    LET wanted == AllowListed(input[1].records)
        jar == output[1].jar
    IN  /\ Len(jar) = Len(wanted)
        /\ \A i \in 1..Len(jar) : \E j \in 1..Len(wanted) :
             /\ jar[i].name = wanted[j].name[1]
             /\ jar[i].value = Trim(wanted[j].value[1])

Decrypted == input # Null /\ input[1].fn = "decryptCookieValue" /\ output # Null

\* C19: decryptCookieValue gives null for a v10/v11 value whenever the
\* passphrase is wrong, missing or empty, or a decode/derive/cipher step
\* fails; nothing is thrown.
C19_NullOnBadPassphrase ==
  (Decrypted /\ IsEncrypted(input[1].enc)
     /\ (input[1].keychain # "ok" \/ input[1].enc.kind = "v10cut"))
    => output[1].value = Null

\* C20 as stated: every legacy value is returned whole and unchanged, and the
\* keychain is not queried.
C20_LegacyUnchanged ==
  (Decrypted /\ input[1].enc.kind = "legacy")
    => (output[1].value = Some(input[1].enc.plain) /\ ~output[1].queried)

\* C20 as amended: a legacy value of at least 4 bytes is returned whole and
\* unchanged, a shorter one gives null; the keychain is queried for neither.
C20_LegacyUnchangedFromFourBytes ==
  (Decrypted /\ input[1].enc.kind = "legacy")
    => /\ ~output[1].queried
       /\ Len(input[1].enc.plain) >= 4 => output[1].value = Some(input[1].enc.plain)
       /\ Len(input[1].enc.plain) < 4 => output[1].value = Null

C20_Witness ==
  /\ Decrypted
  /\ input[1].enc = [kind |-> "legacy", plain |-> <<"g","\t","c","0","1">>]
  /\ input[1].keychain = "missing"
  /\ output[1] = [value |-> Some(<<"g","\t","c","0","1">>), queried |-> FALSE]

SafariReturned == call # Null /\ call[1].reader = "safari" /\ result # Null

\* C18: every failure of extractCookiesFromSafari (file not found, copy or
\* read error, malformed container) gives a result without tokens and
\* without header, and exactly one warning; the call does not throw.
C18_SafariFailureOneWarning ==
  (SafariReturned /\ call[1].store.status # "ok") =>
    /\ ~result[1].threw
    /\ result[1].cookies = EmptyCookies
    /\ Len(result[1].warnings) = 1

\* the temp directories of the disk were all left by an rmSync that threw
OnlyRmFailuresRemain == disk.temp = disk.rmFailed

RmCalled(dir) == \E i \in 1..Len(fsLog) : fsLog[i].op = "rmSync" /\ fsLog[i].dir = dir

CopiedBefore(i) ==
  \E j \in 1..(i - 1) :
    /\ fsLog[j].op = "copyFileSync" /\ fsLog[j].ok
    /\ fsLog[j].file = fsLog[i].file /\ fsLog[j].dir = fsLog[i].dir

\* C16: no reader writes to or deletes a vendor file: the originals are only
\* existence-checked, listed and copied from; readFileSync and sqlite3 run on
\* the copy in the reader's own temp directory, after that copy completed;
\* only a temp directory is removed; the vendor files stay as they were.
C16_VendorFilesUntouched ==
  /\ [](run # Null =>
         \A i \in 1..Len(fsLog) :
           /\ fsLog[i].area = "vendor" => fsLog[i].op \in {"existsSync", "readdirSync"}
           /\ fsLog[i].op \in {"readFileSync", "sqlite3"} =>
                /\ fsLog[i].area = "temp"
                /\ run.tempDir = Some(fsLog[i].dir)
                /\ CopiedBefore(i)
           /\ fsLog[i].op \in {"copyFileSync", "rmSync", "mkdtempSync"} =>
                fsLog[i].area = "temp")
  /\ [][disk'.vendor = disk.vendor]_vars

C16_Witness ==
  /\ run # Null /\ run.at = "returned"
  /\ run.reader = "chrome"
  /\ disk.vendor = {"chrome", "chrome-wal", "chrome-shm"}
  /\ fsLog = << LogEntry("existsSync", "vendor", "chrome", 0, TRUE),
                LogEntry("mkdtempSync", "temp", "", 1, TRUE),
                LogEntry("copyFileSync", "temp", "chrome", 1, TRUE),
                LogEntry("existsSync", "vendor", "chrome-wal", 0, TRUE),
                LogEntry("copyFileSync", "temp", "chrome-wal", 1, TRUE),
                LogEntry("existsSync", "vendor", "chrome-shm", 0, TRUE),
                LogEntry("copyFileSync", "temp", "chrome-shm", 1, TRUE),
                LogEntry("sqlite3", "temp", "chrome", 1, TRUE),
                LogEntry("rmSync", "temp", "", 1, TRUE) >>
  /\ run.result[1].cookies.source = Some("Chrome default profile")

\* a direct call of the Chrome or Firefox reader returned, the database
\* having been found
DatabaseRead ==
  /\ call # Null /\ result # Null /\ ~result[1].threw
  /\ \/ call[1].reader = "chrome" /\ call[1].store.status # "notFound"
     \/ call[1].reader = "firefox" /\ call[1].store.status \notin {"noRoot", "noDb"}

\* C21: when the Chrome (or Firefox) reader found the database and ends with
\* no cookie recovered, its warnings include the "No Twitter cookies found
\* in <browser>" warning of that browser and both tokens are null.
C21_NoCookiesWarning ==
  (DatabaseRead /\ result[1].cookies.cookieHeader = Null) =>
    /\ result[1].cookies.authToken = Null
    /\ result[1].cookies.ct0 = Null
    /\ \E i \in 1..Len(result[1].warnings) :
         result[1].warnings[i] =
           (IF call[1].reader = "chrome" THEN CHROME_NO_COOKIES ELSE FIREFOX_NO_COOKIES)

C21_Witness ==
  /\ DatabaseRead
  /\ call[1].reader = "chrome"
  /\ call[1].store.status = "ok" /\ call[1].store.keychain = "missing"
  /\ Len(call[1].store.rows) = 1 /\ call[1].store.rows[1].name = CT0_NAME
  /\ result[1].cookies = EmptyCookies
  /\ result[1].warnings = <<CHROME_NO_COOKIES>>

Did(kind, text) == \E i \in 1..Len(cmd.events) : cmd.events[i] = Event(kind, text)

\* the events of the command from the call of resolveCredentials on
SinceResolve ==
  LET i == CHOOSE j \in 1..Len(cmd.events) : cmd.events[j] = Event("call", "resolveCredentials")
  IN  SubSeq(cmd.events, i + 1, Len(cmd.events))

\* C22: in read, replies, thread, lists and list-timeline a TwitterClient is
\* constructed and a request issued only with credentials holding both
\* tokens; with a token missing the command prints every warning, then
\* reports the missing credentials and exits with code 1.
C22_NoClientWithoutCredentials ==
  (cmd # Null /\ cmd.call.name \in {"read", "replies", "thread", "lists", "list-timeline"}) =>
    /\ (Did("new", "TwitterClient") \/ Did("request", "twitter")) =>
         /\ cmd.creds # Null
         /\ cmd.creds[1].cookies.authToken # Null
         /\ cmd.creds[1].cookies.ct0 # Null
    /\ (cmd.creds # Null /\ (cmd.creds[1].cookies.authToken = Null
                               \/ cmd.creds[1].cookies.ct0 = Null)) =>
         /\ cmd.exit = Some(1)
         /\ SinceResolve = Warned(cmd.creds[1].warnings)
                             \o <<Event("error", "Missing required credentials")>>

C22_Witness ==
  /\ cmd # Null /\ cmd.call.name = "thread" /\ cmd.at = "exited"
  /\ cmd.creds # Null /\ cmd.creds[1].cookies.authToken # Null
  /\ cmd.creds[1].cookies.ct0 = Null
  /\ cmd.events = << Event("call", "resolveCredentials"), Event("warn", SAFARI_NOT_FOUND),
                     Event("warn", FIREFOX_NOT_FOUND), Event("warn", MISSING_CT0),
                     Event("error", "Missing required credentials") >>

IsDigits(s) == s # <<>> /\ \A i \in 1..Len(s) : s[i] \in {"0","1","2","3","4","5","6","7","8","9"}

\* the options of a replies or thread command that the validation must refuse
InvalidOptions ==
  LET o == cmd.call.opts
  IN  /\ cmd.call.name \in {"replies", "thread"}
      /\ \/ o.maxPages # Null /\ ~(o.all \/ Truthy(o.cursor))
         \/ o.maxPages # Null /\ ~(IsDigits(o.maxPages[1]) /\ parseInt(o.maxPages[1])[1] > 0)
         \/ o.delay # Null /\ ~IsDigits(o.delay[1])

\* C27: in replies and thread, --max-pages without --all or --cursor, a
\* --max-pages that is not a positive integer and a --delay that is not a
\* non-negative integer each end the command with an error and exit code 1,
\* before the credentials are resolved and before any request.
C27_ValidationFirst ==
  (cmd # Null /\ cmd.at # "start" /\ InvalidOptions) =>
    /\ cmd.exit = Some(1)
    /\ Len(cmd.events) = 1 /\ cmd.events[1].kind = "error"

\* C28: with a Sweetistics API key (option or environment) tweet and reply
\* post through SweetisticsClient and never call resolveCredentials or make
\* a TwitterClient; a post that fails or throws exits with code 1.
C28_SweetisticsOnly ==
  (cmd # Null /\ cmd.call.name \in {"tweet", "reply"} /\ cmd.at # "start"
     /\ (Truthy(cmd.call.opts.apiKey) \/ Truthy(cmd.call.opts.envApiKey)
           \/ Truthy(cmd.call.opts.envLocalhostApiKey))) =>
    /\ Did("new", "SweetisticsClient")
    /\ ~Did("call", "resolveCredentials")
    /\ ~Did("new", "TwitterClient") /\ ~Did("request", "twitter")
    /\ cmd.at \in {"done", "exited"}
    /\ cmd.at = "exited" => cmd.exit = Some(1)
    /\ cmd.at = "done" => cmd.events = <<Event("new", "SweetisticsClient"),
                                         Event("request", "sweetistics")>>

C28_Witness ==
  /\ cmd # Null /\ cmd.call.name = "reply" /\ cmd.at = "exited"
  /\ cmd.call.opts.apiKey = Some(<<>>) /\ cmd.call.opts.envApiKey = Null
  /\ cmd.call.opts.envLocalhostApiKey = Some(<<"k","3">>)
  /\ cmd.events = <<Event("new", "SweetisticsClient"), Event("request", "sweetistics"),
                    Event("error", "Sweetistics error")>>
  /\ cmd.exit = Some(1)

PagedResult == paging # Null /\ paging.result # Null /\ paging.result[1].success

\* the ids of a sequence of tweets
Ids(ts) == { ts[i].id : i \in 1..Len(ts) }

\* the first occurrence of id among the matching tweets received
FirstServed(id) ==
  paging.served[CHOOSE i \in 1..Len(paging.served) :
                /\ paging.served[i].id = id
                /\ \A j \in 1..(i - 1) : paging.served[j].id # id]

\* C23: the tweets returned by getRepliesPaged and getThreadPaged hold each
\* id at most once, and the tweet kept for an id is its first occurrence
\* among the matching tweets of the pages fetched.
C23_EachIdOnce ==
  PagedResult =>
    LET ts == paging.result[1].tweets
    IN  /\ \A i, j \in 1..Len(ts) : ts[i].id = ts[j].id => i = j
        /\ Ids(ts) = Ids(paging.served)
        /\ \A i \in 1..Len(ts) : ts[i] = FirstServed(ts[i].id)

C23_Witness ==
  /\ PagedResult /\ paging.fn = "getRepliesPaged"
  /\ Len(paging.served) = 4 /\ Len(paging.result[1].tweets) = 2
  /\ paging.served[1].id = "b" /\ paging.served[2].id = "b" /\ paging.served[3].id = "c"
  /\ paging.served[4].id = "b"
  /\ paging.result[1].tweets[1].raw = <<1, 1>> /\ paging.result[1].tweets[2].raw = <<2, 1>>

Successes == { i \in 1..Len(paging.requests) : paging.requests[i].ok }

\* C24: with maxPages = k >= 1 a call makes at most k successful fetches;
\* when it stops at the k-th page and that page has a new cursor and a
\* matching tweet, nextCursor is that page's cursor.
C24_MaxPages ==
  (paging # Null /\ paging.maxPages # Null) =>
    /\ Cardinality(Successes) <= paging.maxPages[1]
    /\ (/\ paging.result # Null
        /\ Cardinality(Successes) = paging.maxPages[1]
        /\ Last(paging.requests).ok
        /\ Last(paging.requests).pageCursor # Null
        /\ Last(paging.requests).pageCursor # Last(paging.requests).cursor
        /\ Last(paging.requests).matched > 0) =>
         /\ paging.result[1].success
         /\ paging.result[1].nextCursor = Last(paging.requests).pageCursor

C24_Witness ==
  /\ PagedResult /\ paging.fn = "getThreadPaged" /\ paging.maxPages = Some(2)
  /\ Len(paging.requests) = 2 /\ paging.requests[1].ok /\ paging.requests[2].ok
  /\ paging.requests[2].cursor = Some("c1") /\ paging.requests[2].pageCursor = Some("c2")
  /\ paging.requests[2].matched > 0
  /\ paging.result[1].nextCursor = Some("c2")

\* C25: a fetch that fails after a page succeeded gives success: true with
\* every tweet collected so far, the error, and nextCursor equal to the
\* cursor of the failed request; a first fetch that fails gives the failure.
C25_PartialResults ==
  (paging # Null /\ paging.result # Null /\ ~Last(paging.requests).ok) =>
    IF Successes # {}
    THEN /\ paging.result[1].success
         /\ paging.result[1].error = Some("HTTP 500")
         /\ paging.result[1].nextCursor = Last(paging.requests).cursor
         /\ Ids(paging.result[1].tweets) = Ids(paging.served)
         /\ paging.result[1].tweets = paging.all
    ELSE paging.result[1] = [success |-> FALSE, tweets |-> <<>>, nextCursor |-> Null,
                           error |-> Some("HTTP 500")]

C25_Witness ==
  /\ paging # Null /\ paging.result # Null /\ Len(paging.requests) = 3
  /\ paging.requests[1].ok /\ paging.requests[2].ok /\ ~paging.requests[3].ok
  /\ paging.requests[3].cursor = Some("c2")
  /\ paging.result[1].success /\ paging.result[1].nextCursor = Some("c2")
  /\ Len(paging.result[1].tweets) = 3

\* C26: every result of getThreadPaged with success: true lists its tweets
\* in non-decreasing order of creation time (no creation time counts as 0).
C26_ThreadSorted ==
  (PagedResult /\ paging.fn = "getThreadPaged") =>
    \A i, j \in 1..Len(paging.result[1].tweets) :
      i < j => TimeOf(paging.result[1].tweets[i]) <= TimeOf(paging.result[1].tweets[j])

\* the records whose name and value are both present and not blank
NamedAndValued(records) ==
  SelectSeq(records, LAMBDA r : ~IsBlank(r.name) /\ ~IsBlank(r.value))

\* C29: the Safari record parser emits a cookie only if its name and its
\* value are both non-empty after trimming (and the domain is allow-listed);
\* a record whose name or value is empty or whitespace-only adds nothing to
\* the jar and fills no token.
C29_BlankNameOrValueIgnored ==
  Parsed =>
    /\ \A i \in 1..Len(output[1].jar) :
         Trim(output[1].jar[i].name) # <<>> /\ Trim(output[1].jar[i].value) # <<>>
    /\ output[1] = parseSafariCookies(NamedAndValued(input[1].records),
                                      [jar |-> <<>>, cookies |-> EmptyCookies])

\* the records of a container that are well formed and lie in a page with
\* the page signature, in file order
RECURSIVE WellFormedRecords(_)
WellFormedRecords(c) ==
  IF c = <<>> THEN <<>>
  ELSE LET units == IF Head(c).signature
                    THEN SelectSeq(Head(c).units, LAMBDA u : u.fault = "none")
                    ELSE <<>>
       IN  [i \in 1..Len(units) |-> units[i].rec] \o WellFormedRecords(Tail(c))

\* C30: in the Safari container parser a page with a wrong signature and a
\* record whose offset or length fails the bounds check or whose field has
\* no NUL before the record end contribute nothing, every well-formed record
\* of a well-formed page is still parsed, and no read leaves the buffer.
C30_MalformedUnitSkipped ==
  (input # Null /\ input[1].fn = "parseSafariCookiesBuffer" /\ output # Null) =>
    LET wanted == parseSafariCookies(WellFormedRecords(input[1].container),
                                     [jar |-> <<>>, cookies |-> EmptyCookies])
    IN  /\ output[1].jar = wanted.jar
        /\ output[1].cookies = wanted.cookies
        /\ ~output[1].outside

C30_Witness ==
  /\ input # Null /\ input[1].fn = "parseSafariCookiesBuffer" /\ output # Null
  /\ Len(input[1].container) = 2
  /\ ~input[1].container[1].signature /\ Len(input[1].container[1].units) = 1
  /\ input[1].container[2].signature /\ Len(input[1].container[2].units) = 2
  /\ input[1].container[2].units[1].fault = "noNul"
  /\ input[1].container[2].units[2].fault = "none"
  /\ output[1].cookies.ct0 = Some(<<"s","c">>) /\ output[1].cookies.authToken = Null
  /\ output[1].jar = <<[name |-> CT0_NAME, value |-> <<"s","c">>]>>

\* the length of the run of lowercase hex characters that starts at s[i]
RECURSIVE LowerHexRunAt(_, _)
LowerHexRunAt(s, i) ==
  IF i <= Len(s) /\ s[i] \in {"0","1","2","3","4","5","6","7","8","9","a","b","c","d","e","f"}
  THEN 1 + LowerHexRunAt(s, i + 1) ELSE 0

\* the longest run of lowercase hex characters of s (the leftmost of the longest)
LongestLowerHexRun(s) ==
  LET i == CHOOSE j \in 1..Len(s) :
             /\ \A k \in 1..Len(s) : LowerHexRunAt(s, k) <= LowerHexRunAt(s, j)
             /\ \A k \in 1..(j - 1) : LowerHexRunAt(s, k) < LowerHexRunAt(s, j)
  IN  SubSeq(s, i, i + LowerHexRunAt(s, i) - 1)

\* C31: after a successful v10/v11 decryption decryptCookieValue returns the
\* longest run of at least 32 lowercase hex characters of the decrypted text
\* when there is one, and otherwise the text without its non-printable
\* characters.
C31_LongestHexRun ==
  (Decrypted /\ input[1].enc.kind \in {"v10", "v11"} /\ input[1].keychain = "ok") =>
    LET s == input[1].enc.plain
    IN  output[1].value =
          IF Len(LongestLowerHexRun(s)) >= HEX_RUN_MIN
          THEN Some(LongestLowerHexRun(s))
          ELSE Some(SelectSeq(s, IsPrintable))

\* what a reader called on a store that it could open read from each row or
\* record, in store order: Null for one it skipped
ReadOf(c, r) ==
  CASE c.reader = "safari" ->
         IF Truthy(r.name) /\ matchesSafariDomain(r.domain) /\ ~IsBlank(r.value)
         THEN Some([name |-> r.name[1], value |-> Trim(r.value[1])]) ELSE Null
    [] c.reader = "chrome" ->
         IF Len(r.name) > 0 /\ Truthy(decryptCookieValue(r.enc, c.store.keychain))
         THEN Some([name |-> r.name, value |-> decryptCookieValue(r.enc, c.store.keychain)[1]])
         ELSE Null
    [] OTHER ->
         IF Len(r.name) > 0 /\ Len(r.value) > 0
         THEN Some([name |-> r.name, value |-> r.value]) ELSE Null

\* the value of the first occurrence of name that the reader read
FirstRead(c, name) ==
  LET at == { i \in 1..Len(c.store.rows) :
                ReadOf(c, c.store.rows[i]) # Null /\ ReadOf(c, c.store.rows[i])[1].name = name }
  IN  IF at = {} THEN Null
      ELSE Some(ReadOf(c, c.store.rows[CHOOSE i \in at : \A j \in at : i <= j])[1].value)

RowsRead == call # Null /\ result # Null /\ ~result[1].threw /\ call[1].store.status = "ok"

\* C32: in each browser reader the auth_token and ct0 slots are first-match-
\* wins: the returned token is the value of the first occurrence the reader
\* read, whatever rows or records of that name follow.
C32_FirstMatchWins ==
  (RowsRead /\ (call[1].reader = "firefox" => getFirefoxCookiesPath(call[1].store, call[1].profile) = "path")) =>
    /\ result[1].cookies.authToken = FirstRead(call[1], AUTH_TOKEN_NAME)
    /\ result[1].cookies.ct0 = FirstRead(call[1], CT0_NAME)

C32_Witness ==
  /\ RowsRead /\ call[1].reader = "firefox" /\ Len(call[1].store.rows) = 2
  /\ call[1].store.rows[1] = [name |-> AUTH_TOKEN_NAME, value |-> <<"f","a">>]
  /\ call[1].store.rows[2] = [name |-> AUTH_TOKEN_NAME, value |-> <<"f","b">>]
  /\ result[1].cookies.authToken = Some(<<"f","a">>)

\* C33: with no profile name, pickFirefoxProfile selects the first directory
\* of the listing whose name contains "default-release", wherever it stands,
\* and only when no directory has such a name the first directory; an entry
\* that is not a directory is never selected; with a profile name only that
\* profile's cookies.sqlite is used.  The path is returned exactly when the
\* selected directory holds cookies.sqlite.
C33_ProfileSelection ==
  (input # Null /\ input[1].fn = "pickFirefoxProfile" /\ output # Null) =>
    LET entries == input[1].entries
        profile == input[1].profile
        path == output[1].path
        IsRel(i) == \E k \in 1..Len(entries[i].name) :
                      \E m \in k..Len(entries[i].name) :
                        SubSeq(entries[i].name, k, m) =
                          <<"d","e","f","a","u","l","t","-","r","e","l","e","a","s","e">>
        IsTarget(i) ==
          /\ entries[i].isDirectory
          /\ \A j \in 1..(i - 1) : entries[j].isDirectory => (IsRel(i) /\ ~IsRel(j))
          /\ IsRel(i) \/ \A j \in 1..Len(entries) : entries[j].isDirectory => ~IsRel(j)
    IN IF profile # Null /\ Len(profile[1]) > 0
       THEN /\ path # Null => path[1][1] = profile[1]
            /\ path # Null <=> \E i \in 1..Len(entries) :
                                 /\ entries[i].name = profile[1]
                                 /\ entries[i].isDirectory /\ entries[i].hasCookies
       ELSE /\ path # Null =>
                 \E i \in 1..Len(entries) : IsTarget(i) /\ entries[i].name = path[1][1]
            /\ path # Null <=>
                 \E i \in 1..Len(entries) : IsTarget(i) /\ entries[i].hasCookies

\* A listing in which a directory without "default-release" in its name
\* stands before the one that has it, and the latter was selected.
C33_Witness ==
  /\ input # Null /\ input[1].fn = "pickFirefoxProfile" /\ output # Null
  /\ input[1].profile = Null
  /\ Len(input[1].entries) = 3
  /\ input[1].entries[1].isDirectory /\ input[1].entries[1].hasCookies
  /\ input[1].entries[1].name = <<"a",".","d","e","f","a","u","l","t">>
  /\ ~input[1].entries[2].isDirectory
  /\ input[1].entries[3].isDirectory
  /\ output[1].path = Some(<<input[1].entries[3].name, "cookies.sqlite">>)

\* C38: with no maxPages, a call of getRepliesPaged or getThreadPaged never
\* requests the same cursor twice.
C38_NoCursorTwice ==
  (paging # Null /\ paging.maxPages = Null) =>
    \A i, j \in 1..Len(paging.requests) :
      i # j => paging.requests[i].cursor # paging.requests[j].cursor

\* C34: within one fetchTweetDetail call refreshQueryIds runs at most once,
\* only after a first round that failed and saw a 404, and exactly one more
\* round follows it; a response other than 404 ends its round at once with
\* that response's outcome; a thrown fetch error is returned as a failure.
C34_RefreshOnceAfter404 ==
  (req # Null /\ req[1].fn = "fetchTweetDetail") =>
    LET r == req[1]
        log == r.log
        n == Len(log)
        Refreshes == { p \in 1..n : log[p].kind = "refresh" }
        EndsRound(i) == \/ log[i].outcome # "404"
                        \/ log[i].method = "POST" /\ log[i].pos = MaxQueryIds
        ErrorOf(i) == CASE log[i].outcome = "ok" -> Null
                        [] log[i].outcome = "errors" -> Some(<<"errors", i>>)
                        [] log[i].outcome = "notOk" -> Some(<<"HTTP 500", i>>)
                        [] log[i].outcome = "throws" -> Some(<<"thrown", i>>)
                        [] OTHER -> Some(<<"HTTP 404">>)
    IN /\ Cardinality(Refreshes) <= 1
       /\ \A p \in Refreshes :
            /\ p > 1
            /\ \A i \in 1..(p - 1) : log[i].kind = "request" /\ log[i].attempt = 1
            /\ \E i \in 1..(p - 1) : log[i].outcome = "404"
            /\ EndsRound(p - 1) /\ log[p - 1].outcome \notin {"ok", "throws"}
            /\ \A i \in 1..(p - 2) : ~EndsRound(i)
            /\ \A i \in (p + 1)..n : log[i].kind = "request" /\ log[i].attempt = 2
            /\ \A i \in (p + 1)..(n - 1) : ~EndsRound(i)
            /\ r.result # Null => (p < n /\ EndsRound(n))
            /\ r.result = Null => (p = n \/ ~EndsRound(n))
       /\ \A i \in 1..n :
            (log[i].kind = "request" /\ log[i].outcome \in {"ok", "errors", "notOk"}) =>
              IF i < n
              THEN /\ log[i + 1].kind = "refresh"
                   /\ r.first = Some([success |-> FALSE, error |-> ErrorOf(i), had404 |-> TRUE])
              ELSE \/ /\ r.at = "refresh"
                      /\ r.first = Some([success |-> FALSE, error |-> ErrorOf(i), had404 |-> TRUE])
                   \/ r.result = Some([success |-> log[i].outcome = "ok", error |-> ErrorOf(i),
                                       via |-> "graphql"])
       /\ \A i \in 1..n :
            (log[i].kind = "request" /\ log[i].outcome = "throws") =>
              /\ i = n
              /\ r.result = Some([success |-> FALSE, error |-> ErrorOf(i), via |-> "catch"])

\* GET 404, POST 500, refresh, GET 200: the second round succeeded.
C34_Witness ==
  /\ req # Null /\ req[1].fn = "fetchTweetDetail" /\ Len(req[1].log) = 4
  /\ req[1].log[1].outcome = "404" /\ req[1].log[2].method = "POST"
  /\ req[1].log[2].outcome = "notOk"
  /\ req[1].log[3].kind = "refresh"
  /\ req[1].log[4].attempt = 2 /\ req[1].log[4].outcome = "ok"
  /\ req[1].result = Some([success |-> TRUE, error |-> Null, via |-> "graphql"])

\* C35: getFollowing / getFollowers issue a REST request only after the
\* first GraphQL attempt failed having seen a 404, then refreshQueryIds ran,
\* then the second attempt failed; a first attempt without a 404 is followed
\* by neither; when REST fails too the error returned is the second attempt's.
C35_RestFallbackLast ==
  (req # Null /\ req[1].fn \in {"getFollowing", "getFollowers"}) =>
    LET r == req[1]
        log == r.log
        n == Len(log)
        Refreshes == { p \in 1..n : log[p].kind = "refresh" }
        Rests == { q \in 1..n : log[q].kind = "rest" }
        First == { i \in 1..n : log[i].kind = "request" /\ log[i].attempt = 1 }
        Second == { i \in 1..n : log[i].kind = "request" /\ log[i].attempt = 2 }
        Failed(A) == A # {} /\ \A i \in A : log[i].outcome # "ok"
        Ended(A) == \E i \in A : log[i].outcome \in {"ok", "errors", "notOk"} \/ log[i].pos = MaxQueryIds
        \* the error a failed attempt returns
        ErrorOfAttempt(A) ==
          LET e == CHOOSE i \in A : \A j \in A : j <= i
          IN CASE log[e].outcome = "errors" -> Some(<<"errors", e>>)
               [] log[e].outcome = "notOk" -> Some(<<"HTTP 500", e>>)
               [] log[e].outcome = "throws" -> Some(<<"thrown", e>>)
               [] OTHER -> Some(<<"HTTP 404">>)
    IN /\ \A q \in Rests :
            \E p \in Refreshes :
              /\ \A i \in First : i < p
              /\ Failed(First) /\ Ended(First)
              /\ \E i \in First : log[i].outcome = "404"
              /\ \A i \in Second : p < i /\ i < q
              /\ Failed(Second) /\ Ended(Second)
       /\ (\A i \in First : log[i].outcome # "404") => (Refreshes = {} /\ Rests = {})
       /\ ((\A i \in First : log[i].outcome # "404") /\ Failed(First) /\ Ended(First)) =>
            r.result = Some([success |-> FALSE, error |-> ErrorOfAttempt(First), via |-> "graphql"])
       /\ (r.result # Null /\ Rests # {} /\ log[n].outcome # "ok") =>
            r.result = Some([success |-> FALSE, error |-> ErrorOfAttempt(Second), via |-> "graphql"])

\* 404 and 500 in the first attempt, refresh, 500 in the second, both REST
\* urls fail: the error of the second attempt is returned.
C35_Witness ==
  /\ req # Null /\ req[1].fn = "getFollowers" /\ Len(req[1].log) = 6
  /\ req[1].log[1].outcome = "404" /\ req[1].log[2].outcome = "notOk"
  /\ req[1].log[3].kind = "refresh"
  /\ req[1].log[4].attempt = 2 /\ req[1].log[4].outcome = "notOk"
  /\ req[1].log[5].kind = "rest" /\ req[1].log[5].outcome = "notOk"
  /\ req[1].log[6].kind = "rest" /\ req[1].log[6].outcome = "throws"
  /\ req[1].result = Some([success |-> FALSE, error |-> Some(<<"HTTP 500", 4>>), via |-> "graphql"])

\* C36: in every result of resolveCredentials with a cookieHeader, the header
\* holds exactly one auth_token entry and one ct0 entry, and their values are
\* the result's authToken and ct0.
C36_HeaderAgreesWithTokens ==
  (returned # Null /\ returned[1].cookies.cookieHeader # Null) =>
    LET c == returned[1].cookies
        h == c.cookieHeader[1]
        \* the entries of the header: maximal pieces between "; " separators
        Starts == { i \in 1..Len(h) : i = 1 \/ (i > 2 /\ h[i - 2] = ";" /\ h[i - 1] = " ") }
        EndOf(i) == CHOOSE e \in i..(Len(h) + 1) :
                      /\ e = Len(h) + 1 \/ (e < Len(h) /\ h[e] = ";" /\ h[e + 1] = " ")
                      /\ \A k \in i..(e - 1) : ~(k < Len(h) /\ h[k] = ";" /\ h[k + 1] = " ")
        Entry(i) == SubSeq(h, i, EndOf(i) - 1)
        Named(n) == { i \in Starts :
                        /\ Len(Entry(i)) > Len(n)
                        /\ SubSeq(Entry(i), 1, Len(n) + 1) = n \o <<"=">> }
        ValueOf(n, i) == SubSeq(Entry(i), Len(n) + 2, Len(Entry(i)))
    IN /\ Cardinality(Named(AUTH_TOKEN_NAME)) = 1
       /\ Cardinality(Named(CT0_NAME)) = 1
       /\ c.authToken # Null /\ c.ct0 # Null
       /\ \A i \in Named(AUTH_TOKEN_NAME) : ValueOf(AUTH_TOKEN_NAME, i) = c.authToken[1]
       /\ \A i \in Named(CT0_NAME) : ValueOf(CT0_NAME, i) = c.ct0[1]

\* C37: every non-null authToken or ct0 of a result of resolveCredentials is
\* non-empty and neither starts nor ends with whitespace.
C37_TokensTrimmed ==
  returned # Null =>
    \A t \in {returned[1].cookies.authToken, returned[1].cookies.ct0} :
      t # Null =>
        /\ Len(t[1]) > 0
        /\ t[1][1] \notin {" ", "\t", "\n", "\r"}
        /\ t[1][Len(t[1])] \notin {" ", "\t", "\n", "\r"}

\* C39: against a server that maps each cursor to a fixed page, the calls of
\* getRepliesPaged with maxPages = k, each resumed from the nextCursor of the
\* one before until none is returned, request the same cursors in the same
\* order as one call without maxPages and collect the same set of tweet ids.
C39_ResumeLossless ==
  (paging # Null /\ paging.fn = "resume") =>
    LET w == paging.whole
        p == paging.part
        m == IF Len(w.requests) < Len(p.requests) THEN Len(w.requests) ELSE Len(p.requests)
        finished == p.done /\ p.nextCursor = Null
    IN /\ SubSeq(w.requests, 1, m) = SubSeq(p.requests, 1, m)
       /\ w.done => Len(p.requests) <= Len(w.requests)
       /\ finished => Len(w.requests) <= Len(p.requests)
       /\ (w.done /\ finished) => (p.requests = w.requests /\ p.ids = w.ids)
       /\ (w.done /\ Len(p.requests) = Len(w.requests)) => finished

\* Three pages fetched by one call and by three calls of one page each, the
\* same reply served twice.
C39_Witness ==
  /\ paging # Null /\ paging.fn = "resume" /\ paging.maxPages = Some(1)
  /\ paging.whole.done /\ paging.part.done /\ paging.part.nextCursor = Null
  /\ paging.part.calls = 3
  /\ paging.whole.requests = <<Null, Some("c1"), Some("c2")>>
  /\ paging.part.requests = paging.whole.requests
  /\ Len(paging.server[Null].tweets) = 1 /\ Len(paging.server[Some("c1")].tweets) = 2
  /\ paging.whole.ids = {"b", "c"} /\ paging.part.ids = {"b", "c"}

\* C40: the cookie header a reader builds from its jar lists every entry of
\* the jar (a name the reader read, with the value read last for it) exactly
\* once, as name=value joined by "; ", in ascending order of the names
\* whatever the order of the rows; for a jar of auth_token and ct0 alone it is
\* the text the CLI/environment path composes.
C40_HeaderSortedByName ==
  (/\ RowsRead
   /\ call[1].reader = "firefox" => getFirefoxCookiesPath(call[1].store, call[1].profile) = "path"
   /\ result[1].cookies.cookieHeader # Null) =>
    LET c == call[1]
        h == result[1].cookies.cookieHeader[1]
        rows == c.store.rows
        read == { i \in 1..Len(rows) : ReadOf(c, rows[i]) # Null }
        last == { i \in read :
                    \A j \in read : ReadOf(c, rows[j])[1].name = ReadOf(c, rows[i])[1].name => j <= i }
        jarEntries == { ReadOf(c, rows[i])[1].name \o <<"=">> \o ReadOf(c, rows[i])[1].value :
                          i \in last }
        Sep(k) == k < Len(h) /\ h[k] = ";" /\ h[k + 1] = " "
        Starts == { i \in 1..Len(h) : i = 1 \/ (i > 2 /\ Sep(i - 2)) }
        EndOf(i) == CHOOSE e \in i..(Len(h) + 1) :
                      /\ e = Len(h) + 1 \/ Sep(e)
                      /\ \A k \in i..(e - 1) : ~Sep(k)
        Entry(i) == SubSeq(h, i, EndOf(i) - 1)
        NameOf(i) == SubSeq(Entry(i), 1,
                            (CHOOSE k \in 1..Len(Entry(i)) :
                               Entry(i)[k] = "=" /\ \A m \in 1..(k - 1) : Entry(i)[m] # "=") - 1)
    IN /\ { Entry(i) : i \in Starts } = jarEntries
       /\ \A i, j \in Starts : i < j => LocaleLess(NameOf(i), NameOf(j))
       /\ { ReadOf(c, rows[i])[1].name : i \in last } = {AUTH_TOKEN_NAME, CT0_NAME} =>
            \E a, b \in { ReadOf(c, rows[i])[1].value : i \in last } : h = ComposeHeader(a, b)

\* The Firefox reader read ct0 before auth_token and lists auth_token first.
C40_Witness ==
  /\ RowsRead /\ call[1].reader = "firefox" /\ Len(call[1].store.rows) = 2
  /\ call[1].store.rows[1] = [name |-> CT0_NAME, value |-> <<"f","c">>]
  /\ call[1].store.rows[2] = [name |-> AUTH_TOKEN_NAME, value |-> <<"f","a">>]
  /\ result[1].cookies.cookieHeader = Some(ComposeHeader(<<"f","a">>, <<"f","c">>))
  /\ result[1].cookies.cookieHeader = WithHeader(result[1].cookies).cookieHeader

====
